---- MODULE Spec2Model ----
(***************************************************************************)
(* Model of the online decision engine of buildstory-agents: the content   *)
(* hasher (lib/storyboard.ts), the Beta-Bernoulli bandit (lib/bandit.ts),  *)
(* the experiment strategist (lib/server/agents/strategist.ts), the        *)
(* storyboard assembler (lib/server/assembleStoryboard.ts), the store they *)
(* share (lib/server/database.ts, supabase-schema.sql), the persona        *)
(* classifier (lib/agents/persona.ts), the Beta samplers, the metrics      *)
(* recorder (lib/metrics.ts), the in-memory rate limiter                   *)
(* (lib/server/rateLimit.ts) and the track route (app/api/track/route.ts). *)
(*                                                                         *)
(* Every `await` of the TypeScript source is a point where another request *)
(* can run, so each asynchronous function is modelled as a sequence of     *)
(* atomic steps, one per awaited store call.                               *)
(***************************************************************************)
EXTENDS Integers, Sequences, FiniteSets, Bags, TLC

(***************************************************************************)
(* JSON values.  A value is a record [t, s, items]: a string (t = "str",   *)
(* text s), an array (t = "arr", items = the elements, each with k = "")   *)
(* or an object (t = "obj", items = its properties in insertion order,     *)
(* each a pair [k |-> name, v |-> value]).                                 *)
(***************************************************************************)
Str(x) == [t |-> "str", s |-> x, items |-> <<>>]

El(v) == [k |-> "", v |-> v]

P(name, v) == [k |-> name, v |-> v]

Arr(vs) == [t |-> "arr", s |-> "", items |-> [i \in 1..Len(vs) |-> El(vs[i])]]

Obj(props) == [t |-> "obj", s |-> "", items |-> props]

ObjectKeys(o) == [i \in 1..Len(o.items) |-> o.items[i].k]

HasProp(o, name) == \E i \in 1..Len(o.items) : o.items[i].k = name

GetProp(o, name) == o.items[CHOOSE i \in 1..Len(o.items) : o.items[i].k = name].v

Reverse(sq) == [i \in 1..Len(sq) |-> sq[Len(sq) + 1 - i]]

\* The property names of the section schemas, in UTF-16 code unit order (the
\* order Array.prototype.sort() gives without a comparator).
PropertyNameOrder ==
    << "cta", "demoIdea", "features", "goal", "headline", "items", "key", "name",
       "price", "qna", "quotes", "role", "sub", "text", "tiers", "type" >>

\* keys.sort(): the names of `keys` in code unit order.
SortKeys(keys) ==
    SelectSeq(PropertyNameOrder, LAMBDA n : \E i \in 1..Len(keys) : keys[i] = n)

\* Object.keys(section) taken in insertion order, without the sort.
ReplacerKeysUnsorted(section) == ObjectKeys(section)

\* The replacer of generateVariantHash: Object.keys(section).sort().
ReplacerKeys(section) == SortKeys(ObjectKeys(section))

RECURSIVE SerializeJSONProperty(_, _)
RECURSIVE SerializeJSONObject(_, _, _, _)
RECURSIVE SerializeJSONArray(_, _, _)

\* JSON.stringify(value, K) for a replacer array K: the text as a sequence of
\* tokens.  An object emits the properties named in K, in the order of K, at
\* every nesting depth; an array emits all its elements.
SerializeJSONProperty(value, K) ==
    IF value.t = "str" THEN << "\"", value.s, "\"" >>
    ELSE IF value.t = "arr"
         THEN << "[" >> \o SerializeJSONArray(value, K, 1) \o << "]" >>
         ELSE << "{" >> \o SerializeJSONObject(value, K, 1, TRUE) \o << "}" >>

SerializeJSONArray(value, K, i) ==
    IF i > Len(value.items) THEN << >>
    ELSE (IF i = 1 THEN << >> ELSE << "," >>)
         \o SerializeJSONProperty(value.items[i].v, K)
         \o SerializeJSONArray(value, K, i + 1)

SerializeJSONObject(value, K, i, first) ==
    IF i > Len(K) THEN << >>
    ELSE IF HasProp(value, K[i])
         THEN (IF first THEN << >> ELSE << "," >>)
              \o << "\"", K[i], "\"", ":" >>
              \o SerializeJSONProperty(GetProp(value, K[i]), K)
              \o SerializeJSONObject(value, K, i + 1, FALSE)
         ELSE SerializeJSONObject(value, K, i + 1, first)

JSONStringify(value, K) == SerializeJSONProperty(value, K)

(***************************************************************************)
(* Sections of the schemas of lib/storyboard.ts.                           *)
(***************************************************************************)
CTA(text, goal) == Obj(<< P("text", Str(text)), P("goal", Str(goal)) >>)

HeroSection(key, headline, ctaText) ==
    Obj(<< P("key", Str(key)), P("type", Str("hero")), P("headline", Str(headline)),
           P("sub", Str("sub")), P("cta", Arr(<< CTA(ctaText, "signup") >>)),
           P("demoIdea", Str("demo")) >>)

BulletsSection(key, items) ==
    Obj(<< P("key", Str(key)), P("type", Str("bullets")),
           P("items", Arr([i \in 1..Len(items) |-> Str(items[i])])) >>)

Quote(text, role) == Obj(<< P("text", Str(text)), P("role", Str(role)) >>)

QuotesSection(key, text, role) ==
    Obj(<< P("key", Str(key)), P("type", Str("quotes")),
           P("quotes", Arr(<< Quote(text, role) >>)) >>)

Tier(name, price, feature, cta) ==
    Obj(<< P("name", Str(name)), P("price", Str(price)),
           P("features", Arr(<< Str(feature) >>)), P("cta", Str(cta)) >>)

TiersSection(key, name, price) ==
    Obj(<< P("key", Str(key)), P("type", Str("tiers")),
           P("tiers", Arr(<< Tier(name, price, "F1", "Buy") >>)) >>)

\* The same section built with its keys inserted in the opposite order, at the
\* top level and in every nested object.
RECURSIVE ReverseKeys(_)
ReverseKeys(value) ==
    IF value.t = "str" THEN value
    ELSE LET inner == [i \in 1..Len(value.items) |->
                          [k |-> value.items[i].k, v |-> ReverseKeys(value.items[i].v)]]
         IN  [t |-> value.t, s |-> "",
              items |-> IF value.t = "obj" THEN Reverse(inner) ELSE inner]

\* The same section with only its top-level keys inserted in the opposite order.
ReverseTopKeys(value) == [value EXCEPT !.items = Reverse(value.items)]

\* Field-for-field identity of two JSON values: equal strings, arrays equal
\* element by element, objects with the same property names and identical
\* values under each name (insertion order is not part of an object's value).
RECURSIVE SameContent(_, _)
SameContent(a, b) ==
    /\ a.t = b.t
    /\ IF a.t = "str" THEN a.s = b.s
       ELSE IF a.t = "arr"
            THEN /\ Len(a.items) = Len(b.items)
                 /\ \A i \in 1..Len(a.items) : SameContent(a.items[i].v, b.items[i].v)
            ELSE /\ {a.items[i].k : i \in 1..Len(a.items)}
                       = {b.items[i].k : i \in 1..Len(b.items)}
                 /\ \A i \in 1..Len(a.items) :
                       SameContent(a.items[i].v, GetProp(b, a.items[i].k))

HeroA == HeroSection("hero", "Stay hydrated", "Buy now")

HeroACta == HeroSection("hero", "Stay hydrated", "Learn more")

HeroB == HeroSection("hero", "Built for the trail", "Buy now")

BulletsA == BulletsSection("bullets", << "Leakproof" >>)

BulletsB == BulletsSection("bullets", << "Leakproof", "Insulated" >>)

QuotesA == QuotesSection("quotes", "Love it", "Runner")

QuotesARole == QuotesSection("quotes", "Love it", "Parent")

TiersA == TiersSection("tiers", "Pro", "$10")

TiersAPrice == TiersSection("tiers", "Pro", "$20")

BaseSections ==
    { HeroA, HeroACta, HeroB, BulletsA, BulletsB, QuotesA, QuotesARole, TiersA,
      TiersAPrice }

\* Every section the model hashes: each content in three insertion orders.
AllSections ==
    BaseSections \cup {ReverseKeys(s) : s \in BaseSections}
                 \cup {ReverseTopKeys(s) : s \in BaseSections}

(***************************************************************************)
(* SHA-256 and the hex encoding.  The digest is modelled as collision free *)
(* on the texts the model hashes: each distinct text gets its own fixed    *)
(* identifier, equal texts get the same one.                               *)
(***************************************************************************)
RECURSIVE SetToSeq(_)
SetToSeq(S) ==
    IF S = {} THEN << >>
    ELSE LET x == CHOOSE y \in S : TRUE IN << x >> \o SetToSeq(S \ {x})

DigestNames == << "d01", "d02", "d03", "d04", "d05", "d06", "d07", "d08", "d09",
                  "d10", "d11", "d12", "d13", "d14", "d15", "d16", "d17", "d18",
                  "d19", "d20", "d21", "d22", "d23", "d24", "d25", "d26", "d27" >>

HashedTexts ==
    SetToSeq({JSONStringify(s, ReplacerKeys(s)) : s \in AllSections}
             \cup {JSONStringify(s, ReplacerKeysUnsorted(s)) : s \in AllSections})

Sha256Hex(text) ==
    DigestNames[CHOOSE i \in 1..Len(HashedTexts) : HashedTexts[i] = text]

\* generateVariantHash(section)
generateVariantHash(section) == Sha256Hex(JSONStringify(section, ReplacerKeys(section)))

(***************************************************************************)
(* The bandit of lib/bandit.ts.                                            *)
(***************************************************************************)
\* An update that takes a success off alpha.
updateBanditStateSwapped(state, reward) ==
    [state EXCEPT !.alpha = state.alpha - reward, !.beta = state.beta + (1 - reward)]

\* An update that counts a failure twice.
updateBanditStateTwice(state, reward) ==
    [state EXCEPT !.alpha = state.alpha + reward, !.beta = state.beta + 2 * (1 - reward)]

\* updateBanditState(state, reward)
updateBanditState(state, reward) ==
    [state EXCEPT !.alpha = state.alpha + reward, !.beta = state.beta + (1 - reward)]

\* A new arm without the prior.
initializeBanditArmNoPrior(storyId, sectionKey, variantHash) ==
    [storyId |-> storyId, sectionKey |-> sectionKey, variantHash |-> variantHash,
     alpha |-> 0, beta |-> 0]

\* initializeBanditArm(storyId, sectionKey, variantHash)
initializeBanditArm(storyId, sectionKey, variantHash) ==
    [storyId |-> storyId, sectionKey |-> sectionKey, variantHash |-> variantHash,
     alpha |-> 1, beta |-> 1]

\* The value getBanditState returns for a missing row (null).
NullState ==
    [storyId |-> "", sectionKey |-> "", variantHash |-> "", alpha |-> 0, beta |-> 0]

\* The samples a Beta draw can take, as levels of an ordered scale.
NumSampleLevels == 2

SampleLevels == 1..NumSampleLevels

\* A reduction with >= in place of >: the last greatest sample.
ReduceBestLast(samples) ==
    CHOOSE i \in 1..Len(samples) :
        /\ \A j \in 1..Len(samples) : samples[j] <= samples[i]
        /\ \A j \in (i + 1)..Len(samples) : samples[j] < samples[i]

\* samples.reduce((best, current) => current.sample > best.sample ? current : best):
\* the index of the first greatest sample.
ReduceBest(samples) ==
    CHOOSE i \in 1..Len(samples) :
        /\ \A j \in 1..Len(samples) : samples[j] <= samples[i]
        /\ \A j \in 1..(i - 1) : samples[j] < samples[i]

(***************************************************************************)
(* The universe of requests.                                               *)
(***************************************************************************)
\* Section contents by name; requests carry the names.
Content(name) ==
    CASE name = "HeroA" -> HeroA
      [] name = "HeroACta" -> HeroACta
      [] name = "HeroB" -> HeroB
      [] name = "BulletsA" -> BulletsA
      [] name = "BulletsB" -> BulletsB

HashOf(name) == generateVariantHash(Content(name))

\* The arms conversions are recorded for and sections are deployed to, as
\* (story, section key, section) triples.
Targets == { << "s1", "hero", "HeroA" >>, << "s1", "hero", "HeroB" >> }

\* The stories processTimeouts sweeps and the sections resetSectionBandit resets.
SweptStories == {"s1"}

ResetSections == { << "s1", "hero" >> }

\* The candidate lists chooseOptimalVariant is called with.
Contexts ==
    { [storyId |-> "s1", sectionKey |-> "hero", availableVariants |-> << >>],
      [storyId |-> "s1", sectionKey |-> "hero", availableVariants |-> << "HeroA" >>],
      [storyId |-> "s1", sectionKey |-> "hero",
       availableVariants |-> << "HeroA", "HeroB" >>] }

DefaultPersona == "commuter"

\* The events the track endpoint is sent.
TrackedEvents ==
    { [storyId |-> "s1", sectionKey |-> "hero", variantHash |-> HashOf("HeroA"),
       event |-> "ctaClick"],
      [storyId |-> "s1", sectionKey |-> "hero", variantHash |-> HashOf("HeroA"),
       event |-> "conversion"],
      [storyId |-> "s1", sectionKey |-> "hero", variantHash |-> HashOf("HeroA"),
       event |-> "view"],
      [storyId |-> "s1", sectionKey |-> "hero", variantHash |-> "",
       event |-> "ctaClick"] }

\* Bounds of the model.
NumCallers == 2

MaxOps == 2

Callers == 1..NumCallers

\* The storyboard a page request assembles, for story s1 and persona commuter.
BaseStoryboard == [persona |-> "commuter", sections |-> << "HeroA", "BulletsA" >>]

\* assembleStoryboard resolves the sections in parallel: one task per section.
Tasks == {NumCallers + i : i \in 1..Len(BaseStoryboard.sections)}

Procs == Callers \cup Tasks

SlotOf(p) == p - NumCallers

\* Results collected in the reverse of the order of the base sections.
TaskOfReversed(i) == NumCallers + Len(BaseStoryboard.sections) + 1 - i

\* The task of the i-th base section: Promise.all keeps the order of the map.
TaskOf(i) == NumCallers + i

(***************************************************************************)
(* State.                                                                  *)
(*   banditState  the rows of table bandit_state                           *)
(*   events       the rows of table events, as a bag (ids left out); in    *)
(*                place of its timestamp a row says whether the timeout    *)
(*                window has passed since it was inserted                  *)
(*   dbUp         whether the store answers; a call made while it is down  *)
(*                comes back with an error                                 *)
(*   proc         per caller, the request it runs: its arguments, its      *)
(*                locals and the await it is suspended at                  *)
(*   started      history: the number of operations started                *)
(*   applied      history: per arm, the rewards applied since its creation *)
(*                or last reset, as counts of ones and zeros               *)
(*   storyboards  the rows of table storyboards, newest first              *)
(*   asm          the assembleStoryboard request: the await it is at, the  *)
(*                rows it listed, its result; history: whether the store   *)
(*                has answered at any time of the run                      *)
(*   pre          history: the tables bandit_state and events as they were *)
(*                when the run began                                       *)
(*   classifier   the context classifyPersona is called with and what its  *)
(*                calls came back with, in order                           *)
(*   hashIn, hashOut  two sections and their identifiers                   *)
(***************************************************************************)
VARIABLES banditState, events, dbUp, proc, started, applied, storyboards, asm,
          pre, classifier, sampler, clock, metrics, calls, inMemoryStores, checks,
          post, hashIn, hashOut

svars == << banditState, events, dbUp, proc, started, applied >>

avars == << storyboards, asm >>

hvars == << hashIn, hashOut >>

xvars == << sampler, clock, metrics, calls, inMemoryStores, checks, post >>

\* The variables of the limiter and of the track route.
lvars == << inMemoryStores, checks, post >>

vars ==
    << banditState, events, dbUp, proc, started, applied, storyboards, asm, pre,
       classifier, xvars, hashIn, hashOut >>

KeyOf(state) == << state.storyId, state.sectionKey, state.variantHash >>

\* A local confidence of 1.0 and the posterior mean alpha / (alpha + beta), as
\* fractions.
One == << 1, 1 >>

Blank ==
    [pc |-> "idle", op |-> "", storyId |-> "", sectionKey |-> "", variantHash |-> "",
     reward |-> 0, event |-> "", cands |-> << >>, i |-> 0, st |-> NullState,
     list |-> << >>, arms |-> << >>, outcome |-> "", section |-> "",
     confidence |-> << 0, 1 >>, isNew |-> FALSE, samples |-> << >>, draws |-> << >>,
     ret |-> NullState, poll |-> "", update |-> ""]

Idle(p) == proc[p].pc \in {"idle", "done"}

Quiescent == \A p \in Callers : Idle(p)

\* Callers are interchangeable: a new request is taken by the lowest caller
\* that is free.
CanStart(p) == Idle(p) /\ started < MaxOps /\ \A q \in 1..(p - 1) : ~Idle(q)

\* The call comes back with an error and the function throws.
Threw(rec) == [rec EXCEPT !.pc = "done", !.outcome = "threw"]

Returned(rec) == [rec EXCEPT !.pc = "done", !.outcome = "ok"]

(***************************************************************************)
(* The store of lib/server/database.ts.                                    *)
(***************************************************************************)
\* getBanditState: the row of the key, or null.
getBanditState(storyId, sectionKey, variantHash) ==
    LET rows == {r \in banditState : KeyOf(r) = << storyId, sectionKey, variantHash >>}
    IN  IF rows = {} THEN NullState ELSE CHOOSE r \in rows : TRUE

\* An upsert whose conflict target is the variant hash alone.
saveBanditStateByVariant(state) ==
    {r \in banditState : r.variantHash # state.variantHash} \cup {state}

\* updateBanditState of database.ts (saveBanditState in the strategist): upsert
\* on the primary key (story_id, section_key, variant_hash).
saveBanditState(state) ==
    {r \in banditState : KeyOf(r) # KeyOf(state)} \cup {state}

\* A listing that leaves out the filter on the section key.
getAllBanditStatesOfStory(storyId, sectionKey) ==
    {r \in banditState : r.storyId = storyId}

\* getAllBanditStates(storyId, sectionKey)
getAllBanditStates(storyId, sectionKey) ==
    {r \in banditState : r.storyId = storyId /\ r.sectionKey = sectionKey}

\* A listing that leaves out the filter on the story.
getBanditStatesOfAllStories(storyId) == banditState

\* getBanditStatesForStory(storyId)
getBanditStatesForStory(storyId) == {r \in banditState : r.storyId = storyId}

\* The orders a SELECT without ORDER BY can return a set of rows in.
RowOrders(rows) ==
    {sq \in [1..Cardinality(rows) -> rows] : \A r \in rows : \E i \in DOMAIN sq : sq[i] = r}

\* The meta of an event: none, or the reward of a conversion.
NoMeta == {}

RewardMeta(reward) == {<< "reward", reward >>}

\* The meta of a 'variantSelected' event: the confidence, as the fraction
\* alpha / (alpha + beta), and the counters of the chosen arm as they were read.
SelectionMeta(arm) ==
    {<< "confidence", << arm.alpha, arm.alpha + arm.beta >> >>,
     << "alpha", arm.alpha >>, << "beta", arm.beta >>}

\* trackEvent: the events table after the insert.
trackEvent(storyId, persona, sectionKey, variantHash, event, meta) ==
    events (+) SetToBag({[storyId |-> storyId, persona |-> persona,
                          sectionKey |-> sectionKey, variantHash |-> variantHash,
                          event |-> event, meta |-> meta, expired |-> FALSE]})

\* The event kinds getConversionEvents selects: .in('event', ['ctaClick']).
ConversionEventKinds == {"ctaClick"}

\* getConversionEvents(storyId, sectionKey, variantHash, timeoutMinutes): the
\* rows with ts >= cutoff are those the window has not passed for.
getConversionEvents(storyId, sectionKey, variantHash) ==
    LET sel == {e \in DOMAIN events :
                   /\ e.storyId = storyId
                   /\ e.sectionKey = sectionKey
                   /\ e.variantHash = variantHash
                   /\ ~e.expired
                   /\ e.event \in ConversionEventKinds}
    IN  BagCardinality([e \in sel |-> events[e]])

\* History: the rewards applied to an arm since its creation or last reset.
AppliedOf(key) == IF key \in DOMAIN applied THEN applied[key] ELSE [ones |-> 0, zeros |-> 0]

SetApplied(key, v) == [k \in DOMAIN applied \cup {key} |-> IF k = key THEN v ELSE applied[k]]

RewardApplied(key, reward) ==
    SetApplied(key, [ones |-> AppliedOf(key).ones + reward,
                     zeros |-> AppliedOf(key).zeros + (1 - reward)])

ArmCreated(key) == IF key \in DOMAIN applied THEN applied ELSE SetApplied(key, AppliedOf(key))

ArmReset(key) == SetApplied(key, [ones |-> 0, zeros |-> 0])

(***************************************************************************)
(* The strategist of lib/server/agents/strategist.ts.  A caller's step     *)
(* runs the code from one awaited store call up to the next.               *)
(***************************************************************************)
OtherVars == << dbUp, avars, pre, classifier, xvars, hvars >>

\* recordConversion, up to the answer of getBanditState.
RecordConversionGet(rec) ==
    IF dbUp
    THEN [rec EXCEPT !.pc = "rc_save",
                     !.st = getBanditState(rec.storyId, rec.sectionKey, rec.variantHash)]
    ELSE Threw(rec)

recordConversion_begin(p) ==
    /\ CanStart(p)
    /\ \E t \in Targets, reward \in {0, 1} :
          LET rec == [Blank EXCEPT !.op = "recordConversion", !.storyId = t[1],
                                   !.sectionKey = t[2], !.variantHash = HashOf(t[3]),
                                   !.reward = reward]
          IN  /\ proc' = [proc EXCEPT ![p] = RecordConversionGet(rec)]
              /\ started' = started + 1
    /\ UNCHANGED << banditState, events, applied, OtherVars >>

\* saveBanditState(updateBanditState(state or a new arm, reward))
recordConversion_save(p) ==
    /\ proc[p].pc = "rc_save"
    /\ LET rec == proc[p]
           base == IF rec.st = NullState
                   THEN initializeBanditArm(rec.storyId, rec.sectionKey, rec.variantHash)
                   ELSE rec.st
           updatedState == updateBanditState(base, rec.reward)
       IN  IF dbUp
           THEN /\ banditState' = saveBanditState(updatedState)
                /\ applied' = RewardApplied(KeyOf(updatedState), rec.reward)
                /\ proc' = [proc EXCEPT ![p].pc = "rc_track"]
           ELSE /\ proc' = [proc EXCEPT ![p] = Threw(rec)]
                /\ UNCHANGED << banditState, applied >>
    /\ UNCHANGED << events, started, OtherVars >>

\* trackEvent(..., 'conversion', {reward}); inside processEvent the caller goes
\* on to track the event it was sent.
recordConversion_track(p) ==
    /\ proc[p].pc = "rc_track"
    /\ LET rec == proc[p]
       IN  IF dbUp
           THEN /\ events' = trackEvent(rec.storyId, DefaultPersona, rec.sectionKey,
                                        rec.variantHash, "conversion",
                                        RewardMeta(rec.reward))
                /\ proc' = [proc EXCEPT ![p] = IF rec.op = "processEvent"
                                                THEN [rec EXCEPT !.pc = "pe_track"]
                                                ELSE Returned(rec)]
           ELSE /\ proc' = [proc EXCEPT ![p] = Threw(rec)]
                /\ UNCHANGED events
    /\ UNCHANGED << banditState, started, applied, OtherVars >>

\* validatePersonaPoll(persona): the persona if it is one of the four, else
\* null, here "".
validatePersonaPoll(persona) ==
    IF persona \in {"athlete", "commuter", "outdoor", "family"} THEN persona ELSE ""

\* The meta of an event sent to the track route: the persona a poll selected,
\* if the event carries one (rec.poll, "" when it does not).
EventMeta(rec) == IF rec.poll = "" THEN NoMeta ELSE {<< "selectedPersona", rec.poll >>}

\* eventType === 'pollPersona' && meta.selectedPersona, and the selected
\* persona is valid.
PollAccepted(rec) ==
    rec.event = "pollPersona" /\ rec.poll # "" /\ validatePersonaPoll(rec.poll) # ""

\* A route that takes every event with a variant hash for a conversion.
TrainsBanditAnyKind(rec) == rec.variantHash # ""

\* (eventType === 'ctaClick' || eventType === 'conversion') with a variantHash
\* that is not empty.
TrainsBandit(rec) == rec.event \in {"ctaClick", "conversion"} /\ rec.variantHash # ""

\* processEvent of the track route: an accepted persona poll is tracked under
\* the selected persona and nothing else is done; otherwise a ctaClick or
\* conversion event that carries a variant hash is recorded as a conversion
\* with reward 1, then every event is tracked.
ProcessEventStart(p, rec) ==
    /\ started' = started + 1
    /\ IF PollAccepted(rec)
       THEN IF dbUp
            THEN /\ events' = trackEvent(rec.storyId, validatePersonaPoll(rec.poll),
                                         rec.sectionKey, rec.variantHash, rec.event,
                                         EventMeta(rec)
                                             \cup {<< "previousPersona", DefaultPersona >>})
                 /\ proc' = [proc EXCEPT ![p] =
                                Returned([rec EXCEPT
                                             !.update = validatePersonaPoll(rec.poll)])]
            ELSE /\ proc' = [proc EXCEPT ![p] = Threw(rec)]
                 /\ UNCHANGED events
       ELSE IF TrainsBandit(rec)
            THEN /\ proc' = [proc EXCEPT ![p] = RecordConversionGet(rec)]
                 /\ UNCHANGED events
            ELSE IF dbUp
                 THEN /\ events' = trackEvent(rec.storyId, DefaultPersona, rec.sectionKey,
                                              rec.variantHash, rec.event, EventMeta(rec))
                      /\ proc' = [proc EXCEPT ![p] = Returned(rec)]
                 ELSE /\ proc' = [proc EXCEPT ![p] = Threw(rec)]
                      /\ UNCHANGED events

processEvent_begin(p) ==
    /\ CanStart(p)
    /\ \E e \in TrackedEvents :
          ProcessEventStart(p, [Blank EXCEPT !.op = "processEvent",
                                            !.storyId = e.storyId,
                                            !.sectionKey = e.sectionKey,
                                            !.variantHash = e.variantHash,
                                            !.event = e.event, !.reward = 1])
    /\ UNCHANGED << banditState, applied, OtherVars >>

processEvent_track(p) ==
    /\ proc[p].pc = "pe_track"
    /\ LET rec == proc[p]
       IN  IF dbUp
           THEN /\ events' = trackEvent(rec.storyId, DefaultPersona, rec.sectionKey,
                                        rec.variantHash, rec.event, EventMeta(rec))
                /\ proc' = [proc EXCEPT ![p] = Returned(rec)]
           ELSE /\ proc' = [proc EXCEPT ![p] = Threw(rec)]
                /\ UNCHANGED events
    /\ UNCHANGED << banditState, started, applied, OtherVars >>

\* A fast path that reports an arm at the prior as new.
AfterEnsureIsNew(rec) ==
    IF rec.op = "deployVariant"
    THEN [rec EXCEPT !.pc = "dv_track"]
    ELSE Returned([rec EXCEPT !.section = rec.cands[1], !.confidence = One,
                              !.isNew = (rec.st.alpha = 1 /\ rec.st.beta = 1)])

\* What follows ensureBanditState: deployVariant tracks the deployment, the
\* single-candidate path of chooseOptimalVariant returns.
AfterEnsure(rec) ==
    IF rec.op = "deployVariant"
    THEN [rec EXCEPT !.pc = "dv_track"]
    ELSE Returned([rec EXCEPT !.section = rec.cands[1], !.confidence = One,
                              !.isNew = FALSE])

\* An ensureBanditState that writes the prior without looking at the row.
EnsureBanditStateBlind(rec) ==
    IF dbUp THEN [rec EXCEPT !.pc = "en_save"] ELSE Threw(rec)

\* ensureBanditState, up to the answer of getBanditState.
EnsureBanditStateGet(rec) ==
    IF dbUp
    THEN LET state == getBanditState(rec.storyId, rec.sectionKey, rec.variantHash)
         IN  IF state = NullState
             THEN [rec EXCEPT !.pc = "en_save"]
             ELSE AfterEnsure([rec EXCEPT !.st = state])
    ELSE Threw(rec)

\* ensureBanditState: saveBanditState(initializeBanditArm(...)) for the arm
\* that was read as missing.
ensureBanditState_save(p) ==
    /\ proc[p].pc = "en_save"
    /\ LET rec == proc[p]
           state == initializeBanditArm(rec.storyId, rec.sectionKey, rec.variantHash)
       IN  IF dbUp
           THEN /\ banditState' = saveBanditState(state)
                /\ applied' = ArmCreated(KeyOf(state))
                /\ proc' = [proc EXCEPT ![p] = AfterEnsure([rec EXCEPT !.st = state])]
           ELSE /\ proc' = [proc EXCEPT ![p] = Threw(rec)]
                /\ UNCHANGED << banditState, applied >>
    /\ UNCHANGED << events, started, OtherVars >>

deployVariant_begin(p) ==
    /\ CanStart(p)
    /\ \E t \in Targets :
          LET rec == [Blank EXCEPT !.op = "deployVariant", !.storyId = t[1],
                                   !.sectionKey = t[2], !.variantHash = HashOf(t[3]),
                                   !.section = t[3]]
          IN  /\ proc' = [proc EXCEPT ![p] = EnsureBanditStateGet(rec)]
              /\ started' = started + 1
    /\ UNCHANGED << banditState, events, applied, OtherVars >>

deployVariant_track(p) ==
    /\ proc[p].pc = "dv_track"
    /\ LET rec == proc[p]
       IN  IF dbUp
           THEN /\ events' = trackEvent(rec.storyId, DefaultPersona, rec.sectionKey,
                                        rec.variantHash, "variantDeployed", NoMeta)
                /\ proc' = [proc EXCEPT ![p] = Returned(rec)]
           ELSE /\ proc' = [proc EXCEPT ![p] = Threw(rec)]
                /\ UNCHANGED events
    /\ UNCHANGED << banditState, started, applied, OtherVars >>

\* chooseVariant(arms) of lib/bandit.ts for a non-empty arm list, given the
\* Beta sample drawn for each arm: a single arm is returned without sampling.
chooseVariant(arms, samples) ==
    IF Len(arms) = 1 THEN arms[1].variant ELSE arms[ReduceBest(samples)].variant

\* A chooseVariant that samples a lone arm too.
SampledArmsAlways(arms) == [i \in 1..Len(arms) |-> i]

\* The arms chooseVariant calls sampleBeta for, in the order of the calls:
\* arms.map(...) over two or more arms, none for a lone arm.
SampledArms(arms) == IF Len(arms) <= 1 THEN << >> ELSE [i \in 1..Len(arms) |-> i]

\* A push that takes alpha for beta and beta for alpha.
PushArmSwapped(rec, state) ==
    [rec EXCEPT !.arms = Append(rec.arms, [variant |-> state.variantHash,
                                           alpha |-> state.beta, beta |-> state.alpha]),
                !.i = rec.i + 1,
                !.pc = IF rec.i < Len(rec.cands) THEN "co_get" ELSE "co_track"]

\* The loop body of chooseOptimalVariant after the arm's state is known:
\* banditArms.push(...), then the next candidate or the choice.
PushArm(rec, state) ==
    [rec EXCEPT !.arms = Append(rec.arms, [variant |-> state.variantHash,
                                           alpha |-> state.alpha, beta |-> state.beta]),
                !.i = rec.i + 1,
                !.pc = IF rec.i < Len(rec.cands) THEN "co_get" ELSE "co_track"]

\* A loop that takes the prior for a missing arm without storing it.
ChooseGetNoSave(rec) ==
    IF dbUp
    THEN LET state == getBanditState(rec.storyId, rec.sectionKey, HashOf(rec.cands[rec.i]))
         IN  IF state = NullState
             THEN PushArm(rec, initializeBanditArm(rec.storyId, rec.sectionKey,
                                                   HashOf(rec.cands[rec.i])))
             ELSE PushArm(rec, state)
    ELSE Threw(rec)

\* The loop of chooseOptimalVariant, up to the answer of getBanditState for
\* candidate i.
ChooseGet(rec) ==
    IF dbUp
    THEN LET state == getBanditState(rec.storyId, rec.sectionKey, HashOf(rec.cands[rec.i]))
         IN  IF state = NullState THEN [rec EXCEPT !.pc = "co_save"] ELSE PushArm(rec, state)
    ELSE Threw(rec)

\* chooseOptimalVariant, up to the answer of its first store call: no candidate
\* throws, one candidate ensures its arm, several start the loop.
ChooseOptimalVariantStart(rec) ==
    IF Len(rec.cands) = 0 THEN Threw(rec)
    ELSE IF Len(rec.cands) = 1
         THEN EnsureBanditStateGet([rec EXCEPT !.variantHash = HashOf(rec.cands[1])])
         ELSE ChooseGet([rec EXCEPT !.i = 1])

chooseOptimalVariant_begin(p) ==
    /\ CanStart(p)
    /\ \E ctx \in Contexts :
          LET rec == [Blank EXCEPT !.op = "chooseOptimalVariant",
                                   !.storyId = ctx.storyId,
                                   !.sectionKey = ctx.sectionKey,
                                   !.cands = ctx.availableVariants]
          IN  /\ proc' = [proc EXCEPT ![p] = ChooseOptimalVariantStart(rec)]
              /\ started' = started + 1
    /\ UNCHANGED << banditState, events, applied, OtherVars >>

chooseOptimalVariant_get(p) ==
    /\ proc[p].pc = "co_get"
    /\ proc' = [proc EXCEPT ![p] = ChooseGet(proc[p])]
    /\ UNCHANGED << banditState, events, started, applied, OtherVars >>

\* saveBanditState(initializeBanditArm(...)) for a candidate read as missing.
chooseOptimalVariant_save(p) ==
    /\ proc[p].pc = "co_save"
    /\ LET rec == proc[p]
           state == initializeBanditArm(rec.storyId, rec.sectionKey,
                                        HashOf(rec.cands[rec.i]))
       IN  IF dbUp
           THEN /\ banditState' = saveBanditState(state)
                /\ applied' = ArmCreated(KeyOf(state))
                /\ proc' = [proc EXCEPT ![p] = PushArm(rec, state)]
           ELSE /\ proc' = [proc EXCEPT ![p] = Threw(rec)]
                /\ UNCHANGED << banditState, applied >>
    /\ UNCHANGED << events, started, OtherVars >>

\* chooseVariant, the search for the chosen arm among the candidates, and
\* trackEvent(..., 'variantSelected', ...).
chooseOptimalVariant_track(p) ==
    /\ proc[p].pc = "co_track"
    /\ \E samples \in [1..Len(proc[p].arms) -> SampleLevels] :
          LET rec == proc[p]
              chosenArm == chooseVariant(rec.arms, samples)
              chosenIndex == CHOOSE i \in 1..Len(rec.arms) :
                                /\ rec.arms[i].variant = chosenArm
                                /\ \A j \in 1..(i - 1) : rec.arms[j].variant # chosenArm
              chosenBanditArm == rec.arms[chosenIndex]
          IN  IF dbUp
              THEN /\ events' = trackEvent(rec.storyId, DefaultPersona, rec.sectionKey,
                                           chosenArm, "variantSelected",
                                           SelectionMeta(chosenBanditArm))
                   /\ proc' = [proc EXCEPT ![p] = Returned(
                         [rec EXCEPT !.variantHash = chosenArm,
                                     !.draws = SampledArms(rec.arms),
                                     !.section = rec.cands[chosenIndex],
                                     !.confidence = << chosenBanditArm.alpha,
                                                       chosenBanditArm.alpha
                                                         + chosenBanditArm.beta >>,
                                     !.isNew = (chosenBanditArm.alpha = 1
                                                  /\ chosenBanditArm.beta = 1)])]
              ELSE /\ proc' = [proc EXCEPT ![p] =
                                  Threw([rec EXCEPT !.draws = SampledArms(rec.arms)])]
                   /\ UNCHANGED events
    /\ UNCHANGED << banditState, started, applied, OtherVars >>

\* The loop of processTimeouts after state i is dealt with.
NextState(rec) ==
    IF rec.i < Len(rec.list)
    THEN [rec EXCEPT !.i = rec.i + 1, !.pc = "pt_count"]
    ELSE Returned([rec EXCEPT !.i = rec.i + 1])

\* processTimeouts, up to the answer of getBanditStatesForStory.
processTimeouts_begin(p) ==
    /\ CanStart(p)
    /\ \E storyId \in SweptStories :
          /\ \E allStates \in RowOrders(getBanditStatesForStory(storyId)) :
                LET rec == [Blank EXCEPT !.op = "processTimeouts", !.storyId = storyId]
                IN  proc' = [proc EXCEPT ![p] =
                        IF ~dbUp THEN Threw(rec)
                        ELSE IF allStates = << >> THEN Returned(rec)
                             ELSE [rec EXCEPT !.list = allStates, !.i = 1,
                                              !.pc = "pt_count"]]
          /\ started' = started + 1
    /\ UNCHANGED << banditState, events, applied, OtherVars >>

\* getConversionEvents for state i, and the test conversions === 0.
processTimeouts_count(p) ==
    /\ proc[p].pc = "pt_count"
    /\ LET rec == proc[p]
           state == rec.list[rec.i]
           conversions == getConversionEvents(rec.storyId, state.sectionKey,
                                              state.variantHash)
       IN  proc' = [proc EXCEPT ![p] =
               IF ~dbUp THEN Threw(rec)
               ELSE IF conversions = 0 THEN [rec EXCEPT !.pc = "pt_save"]
                    ELSE NextState(rec)]
    /\ UNCHANGED << banditState, events, started, applied, OtherVars >>

\* saveBanditState(updateBanditState(state, 0)), state being the row as it was
\* listed.
processTimeouts_save(p) ==
    /\ proc[p].pc = "pt_save"
    /\ LET rec == proc[p]
           updatedState == updateBanditState(rec.list[rec.i], 0)
       IN  IF dbUp
           THEN /\ banditState' = saveBanditState(updatedState)
                /\ applied' = RewardApplied(KeyOf(updatedState), 0)
                /\ proc' = [proc EXCEPT ![p] = NextState(rec)]
           ELSE /\ proc' = [proc EXCEPT ![p] = Threw(rec)]
                /\ UNCHANGED << banditState, applied >>
    /\ UNCHANGED << events, started, OtherVars >>

\* resetSectionBandit, up to the answer of getAllBanditStates.
resetSectionBandit_begin(p) ==
    /\ CanStart(p)
    /\ \E s \in ResetSections :
          /\ \E states \in RowOrders(getAllBanditStates(s[1], s[2])) :
                LET rec == [Blank EXCEPT !.op = "resetSectionBandit", !.storyId = s[1],
                                         !.sectionKey = s[2]]
                IN  proc' = [proc EXCEPT ![p] =
                        IF ~dbUp THEN Threw(rec)
                        ELSE [rec EXCEPT !.list = states, !.i = 1,
                                         !.pc = IF states = << >> THEN "rs_track"
                                                ELSE "rs_save"]]
          /\ started' = started + 1
    /\ UNCHANGED << banditState, events, applied, OtherVars >>

\* saveBanditState({...state, alpha: 1, beta: 1})
resetSectionBandit_save(p) ==
    /\ proc[p].pc = "rs_save"
    /\ LET rec == proc[p]
           resetState == [rec.list[rec.i] EXCEPT !.alpha = 1, !.beta = 1]
       IN  IF dbUp
           THEN /\ banditState' = saveBanditState(resetState)
                /\ applied' = ArmReset(KeyOf(resetState))
                /\ proc' = [proc EXCEPT ![p].i = rec.i + 1,
                                        ![p].pc = IF rec.i < Len(rec.list) THEN "rs_save"
                                                  ELSE "rs_track"]
           ELSE /\ proc' = [proc EXCEPT ![p] = Threw(rec)]
                /\ UNCHANGED << banditState, applied >>
    /\ UNCHANGED << events, started, OtherVars >>

resetSectionBandit_track(p) ==
    /\ proc[p].pc = "rs_track"
    /\ LET rec == proc[p]
       IN  IF dbUp
           THEN /\ events' = trackEvent(rec.storyId, "commuter", rec.sectionKey, "",
                                        "banditReset", NoMeta)
                /\ proc' = [proc EXCEPT ![p] = Returned(rec)]
           ELSE /\ proc' = [proc EXCEPT ![p] = Threw(rec)]
                /\ UNCHANGED events
    /\ UNCHANGED << banditState, started, applied, OtherVars >>

(***************************************************************************)
(* The assembler of lib/server/assembleStoryboard.ts.                      *)
(***************************************************************************)
IdleAssembly ==
    [pc |-> "idle", outcome |-> "", all |-> << >>, sections |-> << >>,
     sectionVariantHashes |-> << >>, storeWasUp |-> TRUE]

AssembledStory == "s1"

SectionKeyOf(name) == GetProp(Content(name), "key").s

\* getAllStoryboardsForPersona(storyId, persona): the rows of the story and
\* persona, in the order of the table (created_at descending).
getAllStoryboardsForPersona(storyId, persona) ==
    SelectSeq(storyboards, LAMBDA r : r.story_id = storyId /\ r.persona = persona)

\* record.json.sections.find((s) => s.key === sectionKey): the first section
\* of the key, as a list of one, or none.
FindSection(json, sectionKey) ==
    LET hits == SelectSeq(json.sections, LAMBDA name : SectionKeyOf(name) = sectionKey)
    IN  IF hits = << >> THEN << >> ELSE << hits[1] >>

RECURSIVE SectionsToHash(_, _, _)
SectionsToHash(allStoryboards, sectionKey, i) ==
    IF i > Len(allStoryboards) THEN << >>
    ELSE FindSection(allStoryboards[i].json, sectionKey)
         \o SectionsToHash(allStoryboards, sectionKey, i + 1)

\* A loop that keeps every gathered section.
DedupeByHashKeepAll(sectionsToHash, i, seen) == sectionsToHash

\* The loop of getSectionVariants over the hashed sections: a section whose
\* hash was seen is skipped.
RECURSIVE DedupeByHash(_, _, _)
DedupeByHash(sectionsToHash, i, seen) ==
    IF i > Len(sectionsToHash) THEN << >>
    ELSE IF HashOf(sectionsToHash[i]) \in seen
         THEN DedupeByHash(sectionsToHash, i + 1, seen)
         ELSE << sectionsToHash[i] >>
              \o DedupeByHash(sectionsToHash, i + 1, seen \cup {HashOf(sectionsToHash[i])})

\* getSectionVariants(sectionKey, allStoryboards, baseSection)
getSectionVariants(sectionKey, allStoryboards, baseSection) ==
    DedupeByHash(<< baseSection >> \o SectionsToHash(allStoryboards, sectionKey, 1), 1, {})

\* A catch that returns the slot without a section.
SlotResultNoFallback(rec, section) ==
    IF rec.outcome = "threw"
    THEN [key |-> SectionKeyOf(section), section |-> "", variantHash |-> ""]
    ELSE [key |-> SectionKeyOf(section), section |-> rec.section,
          variantHash |-> rec.variantHash]

\* What the try/catch around one section returns: the chosen variant, or the
\* base section with no variant hash when anything in it threw.
SlotResult(rec, section) ==
    IF rec.outcome = "threw"
    THEN [key |-> SectionKeyOf(section), section |-> section, variantHash |-> ""]
    ELSE [key |-> SectionKeyOf(section), section |-> rec.section,
          variantHash |-> rec.variantHash]

\* for (const r of results) if (r.variantHash) sectionVariantHashes[r.key] = ...
\* : a later result of the same key overwrites an earlier one.
VariantHashMap(results) ==
    LET set == {i \in 1..Len(results) : results[i].variantHash # ""}
    IN  [k \in {results[i].key : i \in set} |->
            results[CHOOSE i \in set :
                        /\ results[i].key = k
                        /\ \A j \in set : results[j].key = k => j <= i].variantHash]

\* assembleStoryboard, up to the answer of getAllStoryboardsForPersona, which
\* is awaited outside any try: its error is the error of the whole call.  With
\* the rows, one task per base section is started.
assembleStoryboard_begin ==
    /\ asm.pc = "idle"
    /\ IF dbUp
       THEN /\ asm' = [asm EXCEPT !.pc = "resolving",
                                  !.all = getAllStoryboardsForPersona(
                                              AssembledStory, BaseStoryboard.persona)]
            /\ proc' = [p \in Procs |->
                          IF p \in Tasks
                          THEN [Blank EXCEPT
                                   !.pc = "task_start",
                                   !.op = "chooseOptimalVariant",
                                   !.storyId = AssembledStory,
                                   !.sectionKey =
                                       SectionKeyOf(BaseStoryboard.sections[SlotOf(p)])]
                          ELSE proc[p]]
       ELSE /\ asm' = [asm EXCEPT !.pc = "done", !.outcome = "threw"]
            /\ UNCHANGED proc
    /\ UNCHANGED << banditState, events, dbUp, started, applied, storyboards, pre,
                    classifier, xvars, hvars >>

\* One section's task: getSectionVariants, then chooseOptimalVariant up to the
\* answer of its first store call.
assembleStoryboard_section(p) ==
    /\ proc[p].pc = "task_start"
    /\ LET section == BaseStoryboard.sections[SlotOf(p)]
           availableVariants == getSectionVariants(proc[p].sectionKey, asm.all, section)
       IN  proc' = [proc EXCEPT ![p] =
               ChooseOptimalVariantStart([proc[p] EXCEPT !.cands = availableVariants])]
    /\ UNCHANGED << banditState, events, started, applied, OtherVars >>

\* Promise.all has every section's result: the storyboard and the map of
\* variant hashes are built and returned.
assembleStoryboard_return ==
    /\ asm.pc = "resolving"
    /\ \A p \in Tasks : proc[p].pc = "done"
    /\ LET results == [i \in 1..Len(BaseStoryboard.sections) |->
                          SlotResult(proc[TaskOf(i)], BaseStoryboard.sections[i])]
       IN  asm' = [asm EXCEPT !.pc = "done", !.outcome = "ok",
                              !.sections = [i \in 1..Len(results) |-> results[i].section],
                              !.sectionVariantHashes = VariantHashMap(results)]
    /\ UNCHANGED << svars, storyboards, pre, classifier, xvars, hvars >>

\* The store stops answering, and answers again.
StorageFails ==
    /\ dbUp
    /\ dbUp' = FALSE
    /\ UNCHANGED << banditState, events, proc, started, applied, avars, pre,
                    classifier, xvars, hvars >>

StorageRecovers ==
    /\ ~dbUp
    /\ dbUp' = TRUE
    /\ asm' = [asm EXCEPT !.storeWasUp = TRUE]
    /\ UNCHANGED << banditState, events, proc, started, applied, storyboards, pre,
                    classifier, xvars, hvars >>

\* Time passes: more than the timeout window, so that every event recorded so
\* far is older than the cutoff of a later sweep.
Expired(e) == [e EXCEPT !.expired = TRUE]

RECURSIVE ExpireAll(_, _)
ExpireAll(bag, rest) ==
    IF rest = {} THEN EmptyBag
    ELSE LET e == CHOOSE x \in rest : TRUE
         IN  [x \in {Expired(e)} |-> bag[e]] (+) ExpireAll(bag, rest \ {e})

WindowPasses ==
    /\ \E e \in DOMAIN events : ~e.expired
    /\ events' = ExpireAll(events, DOMAIN events)
    /\ UNCHANGED << banditState, dbUp, proc, started, applied, avars, pre,
                    classifier, xvars, hvars >>

(***************************************************************************)
(* The persona classifier of lib/agents/persona.ts.                        *)
(*                                                                         *)
(* JavaScript values.  A field of the context is undefined, a string or a  *)
(* number: [t, s, n] with the text in s or the number in n.                *)
(***************************************************************************)
JsUndefined == [t |-> "undefined", s |-> "", n |-> 0]

JsString(x) == [t |-> "string", s |-> x, n |-> 0]

JsNumber(x) == [t |-> "number", s |-> "", n |-> x]

\* ToBoolean: undefined, the empty string and 0 are falsy.
Truthy(v) ==
    CASE v.t = "undefined" -> FALSE
      [] v.t = "string" -> v.s # ""
      [] v.t = "number" -> v.n # 0

\* a || b
OrElse(a, b) == IF Truthy(a) THEN a ELSE b

\* `${v}` in a template literal.
TemplateText(v) == IF v.t = "undefined" THEN "undefined" ELSE v.s

\* String.prototype.includes
Includes(str, sub) ==
    \E i \in 1..(Len(str) - Len(sub) + 1) : SubSeq(str, i, i + Len(sub) - 1) = sub

UpperCaseLetters ==
    << "A", "B", "C", "D", "E", "F", "G", "H", "I", "J", "K", "L", "M", "N", "O", "P",
       "Q", "R", "S", "T", "U", "V", "W", "X", "Y", "Z" >>

LowerCaseLetters ==
    << "a", "b", "c", "d", "e", "f", "g", "h", "i", "j", "k", "l", "m", "n", "o", "p",
       "q", "r", "s", "t", "u", "v", "w", "x", "y", "z" >>

LowerChar(c) ==
    IF \E i \in 1..Len(UpperCaseLetters) : UpperCaseLetters[i] = c
    THEN LowerCaseLetters[CHOOSE i \in 1..Len(UpperCaseLetters) : UpperCaseLetters[i] = c]
    ELSE c

\* String.prototype.toLowerCase, letter by letter.
RECURSIVE ToLowerCase(_)
ToLowerCase(str) ==
    IF Len(str) = 0 THEN ""
    ELSE LowerChar(SubSeq(str, 1, 1)) \o ToLowerCase(SubSeq(str, 2, Len(str)))

\* v?.toLowerCase() and v?.includes(sub) of an optional string.
OptLowerCase(v) == IF v.t = "undefined" THEN v ELSE JsString(ToLowerCase(v.s))

OptIncludes(v, sub) == v.t = "string" /\ Includes(v.s, sub)

(***************************************************************************)
(* Numbers.  The scores and the confidence are IEEE 754 doubles, and the   *)
(* weights 0.1, 0.2, 0.3, 0.4, 0.6 are not exact in binary, so sums round: *)
(* 0.4 + 0.3 - (0.2 + 0.1) is below 0.4.  A double x of the range used     *)
(* here, [0, 4), is a multiple k of 2^-56, and 2^56 / 100 is               *)
(* 720575940379279 + 9/25.  x is kept as the pair [h, e] of the nearest    *)
(* hundredth h and the distance e to it in units of 2^-56 / 25:            *)
(*     x = h / 100 + e * 2^-56 / 25,   k = h * 720575940379279 + (9h+e)/25 *)
(* The distances stay far below a hundredth, so doubles compare as pairs,  *)
(* and rounding a sum to the 53 bits of its binade needs k modulo 64 only. *)
(***************************************************************************)
Double(h, e) == [h |-> h, e |-> e]

\* 720575940379279 modulo 64
UnitResidue == 15

\* The spacing of the doubles around x, in units of 2^-56 (1 where every
\* multiple of 2^-56 is a double).
Spacing(x) ==
    CASE x.h <= 12 -> 1
      [] x.h > 12 /\ x.h < 25 -> 2
      [] x.h = 25 -> IF x.e < 0 THEN 2 ELSE 4
      [] x.h > 25 /\ x.h < 50 -> 4
      [] x.h = 50 -> IF x.e < 0 THEN 4 ELSE 8
      [] x.h > 50 /\ x.h < 100 -> 8
      [] x.h = 100 -> IF x.e < 0 THEN 8 ELSE 16
      [] x.h > 100 /\ x.h < 200 -> 16
      [] x.h = 200 -> IF x.e < 0 THEN 16 ELSE 32
      [] x.h > 200 -> 32

\* Round to nearest, ties to even, of an exact sum or difference in [0, 4).
FlRound(x) ==
    LET g == Spacing(x)
        k == (x.h * UnitResidue + (9 * x.h + x.e + 160000) \div 25) % 64
        r == k % g
        d == IF r = 0 THEN 0
             ELSE IF 2 * r < g THEN 0 - r
             ELSE IF 2 * r > g THEN g - r
             ELSE IF (k - r) % (2 * g) = 0 THEN 0 - r ELSE g - r
    IN  Double(x.h, x.e + 25 * d)

FlAdd(a, b) == FlRound(Double(a.h + b.h, a.e + b.e))

FlSub(a, b) == FlRound(Double(a.h - b.h, a.e - b.e))

FlLess(a, b) == a.h < b.h \/ (a.h = b.h /\ a.e < b.e)

\* Math.min and Math.max
FlMin(a, b) == IF FlLess(b, a) THEN b ELSE a

FlMax(a, b) == IF FlLess(a, b) THEN b ELSE a

\* The number literals of classifyPersona, as doubles.
Zero == Double(0, 0)

W01 == Double(10, 10)

W02 == Double(20, 20)

W03 == Double(30, 0 - 20)

W04 == Double(40, 40)

W06 == Double(60, 0 - 40)

PollConfidence == Double(95, 0 - 80)

\* confidence.toFixed(2), for a confidence below 1: the nearest hundredth.
Digits == << "0", "1", "2", "3", "4", "5", "6", "7", "8", "9" >>

ToFixed2(x) == "0." \o Digits[(x.h \div 10) + 1] \o Digits[(x.h % 10) + 1]

(***************************************************************************)
(* PersonaContext.  utmParams and sessionData are objects or undefined     *)
(* (field `defined`); the other fields are values.  userAgent and          *)
(* sessionData.viewedProducts are never read by classifyPersona.           *)
(***************************************************************************)
NoUtmParams ==
    [defined |-> FALSE, utm_source |-> JsUndefined, utm_medium |-> JsUndefined,
     utm_campaign |-> JsUndefined, utm_content |-> JsUndefined,
     utm_persona |-> JsUndefined]

UtmParams == [NoUtmParams EXCEPT !.defined = TRUE]

NoSessionData == [defined |-> FALSE, searchTerms |-> JsUndefined, cartSize |-> JsUndefined]

SessionData == [NoSessionData EXCEPT !.defined = TRUE]

\* classifyPersona({})
EmptyContext ==
    [pollResult |-> JsUndefined, utmParams |-> NoUtmParams, timeOfDay |-> JsUndefined,
     dayOfWeek |-> JsUndefined, deviceType |-> JsUndefined, referrer |-> JsUndefined,
     sessionData |-> NoSessionData]

\* Object.entries(score): the segments in the order of the score literal.
Segments == << "athlete", "commuter", "outdoor", "family" >>

SegmentIndex(seg) == CHOOSE i \in 1..Len(Segments) : Segments[i] = seg

\* One `if` of the scoring: whether it is taken, the segments whose score it
\* adds its weight to, and the descriptions it pushes to `reasoning`.
Rule(fires, segs, weight, texts) ==
    [fires |-> fires, segs |-> segs, weight |-> weight, texts |-> texts]

\* UTM parameter analysis.
UtmRules(context) ==
    LET utm      == context.utmParams
        source   == OptLowerCase(utm.utm_source)
        campaign == OptLowerCase(utm.utm_campaign)
        content  == OptLowerCase(utm.utm_content)
        named    == TemplateText(OrElse(source, campaign))
        utmPersona == utm.utm_persona
    IN  IF ~utm.defined THEN << >>
        ELSE << Rule(\/ OptIncludes(source, "fitness") \/ OptIncludes(source, "gym")
                     \/ OptIncludes(source, "strava") \/ OptIncludes(campaign, "sport"),
                     {"athlete"}, W04, << "Fitness source: " \o named >>),
                Rule(\/ OptIncludes(source, "linkedin") \/ OptIncludes(campaign, "office")
                     \/ OptIncludes(campaign, "work") \/ OptIncludes(content, "daily"),
                     {"commuter"}, W04, << "Work/commute source: " \o named >>),
                Rule(\/ OptIncludes(source, "outdoor") \/ OptIncludes(source, "rei")
                     \/ OptIncludes(source, "trail") \/ OptIncludes(campaign, "adventure"),
                     {"outdoor"}, W04, << "Outdoor source detected" >>),
                Rule(\/ OptIncludes(source, "parent") \/ OptIncludes(source, "mom")
                     \/ OptIncludes(source, "family") \/ OptIncludes(campaign, "kids"),
                     {"family"}, W04, << "Family/parenting source" >>),
                Rule(/\ Truthy(utmPersona)
                     /\ \E i \in 1..Len(Segments) : Segments[i] = utmPersona.s,
                     {utmPersona.s}, W06, << "UTM persona: " \o utmPersona.s >>) >>

\* Time-based heuristics.
TimeRules(hour, day) ==
    << Rule(hour >= 5 /\ hour <= 7, {"athlete"}, W02,
            << "Early morning visitor (athlete pattern)" >>),
       Rule(/\ (hour >= 7 /\ hour <= 9) \/ (hour >= 17 /\ hour <= 19)
            /\ day >= 1 /\ day <= 5,
            {"commuter"}, W03, << "Commute hours on weekday" >>),
       Rule(day = 0 \/ day = 6, {"outdoor", "family"}, W01, << "Weekend visitor" >>) >>

\* Device type analysis.
DeviceRules(context) ==
    LET deviceType == context.deviceType
    IN  IF ~Truthy(deviceType) THEN << >>
        ELSE << Rule(deviceType.s = "mobile", {"athlete", "family"}, W01,
                     << "Mobile device" >>),
                Rule(deviceType.s = "desktop", {"commuter"}, W02,
                     << "Desktop (office pattern)" >>),
                Rule(deviceType.s = "tablet", {"family"}, W02, << "Tablet device" >>) >>

\* Referrer analysis.
ReferrerRules(context) ==
    LET referrer == ToLowerCase(context.referrer.s)
    IN  IF ~Truthy(context.referrer) THEN << >>
        ELSE << Rule(\/ Includes(referrer, "runner") \/ Includes(referrer, "fitness")
                     \/ Includes(referrer, "gym") \/ Includes(referrer, "training"),
                     {"athlete"}, W03, << "Fitness referrer" >>),
                Rule(\/ Includes(referrer, "outdoor") \/ Includes(referrer, "hiking")
                     \/ Includes(referrer, "camping") \/ Includes(referrer, "trail"),
                     {"outdoor"}, W03, << "Outdoor referrer" >>),
                Rule(\/ Includes(referrer, "parent") \/ Includes(referrer, "mom")
                     \/ Includes(referrer, "dad") \/ Includes(referrer, "family"),
                     {"family"}, W03, << "Family/parenting referrer" >>),
                Rule(\/ Includes(referrer, "office") \/ Includes(referrer, "productivity")
                     \/ Includes(referrer, "linkedin"),
                     {"commuter"}, W03, << "Professional referrer" >>) >>

\* searchTerms.toLowerCase() is a TypeError when searchTerms is truthy and
\* not a string.
SearchTermsThrow(context) ==
    /\ context.sessionData.defined
    /\ Truthy(context.sessionData.searchTerms)
    /\ context.sessionData.searchTerms.t # "string"

\* The search-term rules add their weights and push no description.
SearchTermRules(context) ==
    LET terms == ToLowerCase(context.sessionData.searchTerms.s)
    IN  IF ~Truthy(context.sessionData.searchTerms) THEN << >>
        ELSE << Rule(Includes(terms, "sport") \/ Includes(terms, "gym"),
                     {"athlete"}, W03, << >>),
                Rule(Includes(terms, "office") \/ Includes(terms, "work"),
                     {"commuter"}, W03, << >>),
                Rule(Includes(terms, "hiking") \/ Includes(terms, "camping"),
                     {"outdoor"}, W03, << >>),
                Rule(Includes(terms, "kids") \/ Includes(terms, "spill"),
                     {"family"}, W03, << >>) >>

\* cartSize > 2: false for undefined.
CartRules(context) ==
    LET cartSize == context.sessionData.cartSize
    IN  << Rule(cartSize.t = "number" /\ cartSize.n > 2, {"family"}, W02,
                << "Multiple items in cart" >>) >>

\* Session data analysis.
SessionRules(context) ==
    IF ~context.sessionData.defined THEN << >>
    ELSE SearchTermRules(context) \o CartRules(context)

\* The rules taken for a context at an hour and a day, in the order of the
\* code.
Triggered(context, hour, day) ==
    SelectSeq(UtmRules(context) \o TimeRules(hour, day) \o DeviceRules(context)
                  \o ReferrerRules(context) \o SessionRules(context),
              LAMBDA rule : rule.fires)

\* Default baseline: score.commuter += 0.1, unconditional and not described.
Baseline == Rule(TRUE, {"commuter"}, W01, << >>)

\* The score of a segment: the weights of the rules that name it, added in
\* order from 0.
RECURSIVE ScoreOf(_, _, _)
ScoreOf(rules, seg, i) ==
    IF i = 0 THEN Zero
    ELSE IF seg \in rules[i].segs
         THEN FlAdd(ScoreOf(rules, seg, i - 1), rules[i].weight)
         ELSE ScoreOf(rules, seg, i - 1)

\* The reasoning array: the descriptions pushed, in order.
RECURSIVE ReasoningOf(_, _)
ReasoningOf(rules, i) ==
    IF i > Len(rules) THEN << >> ELSE rules[i].texts \o ReasoningOf(rules, i + 1)

\* reasoning.join(', ')
RECURSIVE Join(_, _)
Join(texts, i) ==
    IF i > Len(texts) THEN ""
    ELSE IF i = Len(texts) THEN texts[i]
    ELSE texts[i] \o ", " \o Join(texts, i + 1)

\* personas.sort((a, b) => b[1] - a[1]): the sort is stable, so of two
\* segments with equal scores the one earlier in Object.entries stays first.
SortsBefore(score, a, b) ==
    \/ FlLess(score[b], score[a])
    \/ score[a] = score[b] /\ SegmentIndex(a) < SegmentIndex(b)

SortedPersonas(score) ==
    [i \in 1..Len(Segments) |->
        CHOOSE a \in DOMAIN score :
           Cardinality({b \in DOMAIN score : SortsBefore(score, b, a)}) = i - 1]

\* The number literals of the confidence.
ConfidenceFloor == Double(30, 0 - 20)

ConfidenceCeiling == Double(95, 0 - 80)

LowConfidence == Double(40, 40)

\* A confidence without the floor.
ConfidenceOfNoFloor(margin) == FlMin(ConfidenceCeiling, margin)

\* Math.min(0.95, Math.max(0.3, margin))
ConfidenceOf(margin) == FlMin(ConfidenceCeiling, FlMax(ConfidenceFloor, margin))

\* What a call of classifyPersona comes back with: a PersonaResult, or an
\* exception.  top, margin, triggered and described are locals of the call,
\* kept as history: the top segment, its margin, the rules that were taken
\* and the reasoning array.
PersonaResult(label, confidence, reasoning, top, margin, triggered, described) ==
    [outcome |-> "ok", label |-> label, confidence |-> confidence,
     reasoning |-> reasoning, top |-> top, margin |-> margin, triggered |-> triggered,
     described |-> described]

PersonaThrew ==
    [outcome |-> "threw", label |-> "", confidence |-> Zero, reasoning |-> "",
     top |-> "", margin |-> Zero, triggered |-> << >>, described |-> << >>]

\* Direct poll result takes precedence.
PollResult(context) ==
    PersonaResult(context.pollResult.s, PollConfidence, "Direct user selection via poll",
                  "", Zero, << >>, << >>)

\* The scoring of a context without a poll result, at an hour and a day.
Scored(context, hour, day) ==
    LET triggered == Triggered(context, hour, day)
        rules     == Append(triggered, Baseline)
        score     == [seg \in {Segments[i] : i \in 1..Len(Segments)} |->
                         ScoreOf(rules, seg, Len(rules))]
        reasoning == ReasoningOf(triggered, 1)
        personas  == SortedPersonas(score)
        topPersona == personas[1]
        margin     == FlSub(score[topPersona], score[personas[2]])
        confidence == ConfidenceOf(margin)
    IN  IF FlLess(confidence, LowConfidence) /\ topPersona # "commuter"
        THEN PersonaResult("commuter", LowConfidence,
                           "Low confidence (" \o ToFixed2(confidence)
                               \o "), defaulting to commuter. " \o Join(reasoning, 1),
                           topPersona, margin, triggered, reasoning)
        ELSE PersonaResult(topPersona, confidence,
                           IF Join(reasoning, 1) = "" THEN "Default classification"
                           ELSE Join(reasoning, 1),
                           topPersona, margin, triggered, reasoning)

\* A classifier that scores the signals before it looks at the poll result.
ClassifyPersonaPollLast(context, now) ==
    IF SearchTermsThrow(context) THEN PersonaThrew
    ELSE IF Truthy(context.pollResult) THEN PollResult(context)
    ELSE Scored(context, OrElse(context.timeOfDay, JsNumber(now.hour)).n,
                OrElse(context.dayOfWeek, JsNumber(now.day)).n)

\* classifyPersona(context) called when the system clock reads `now`:
\* context.timeOfDay || new Date().getHours(), context.dayOfWeek || new
\* Date().getDay().
ClassifyPersona(context, now) ==
    IF Truthy(context.pollResult) THEN PollResult(context)
    ELSE IF SearchTermsThrow(context) THEN PersonaThrew
    ELSE Scored(context, OrElse(context.timeOfDay, JsNumber(now.hour)).n,
                OrElse(context.dayOfWeek, JsNumber(now.day)).n)

\* The clock readings a call can see.  Where the call does not read the
\* hour, or the day, one value stands for all.
ReadsClock(context, field) == ~Truthy(context.pollResult) /\ ~Truthy(field)

ClockReadings(context) ==
    { [hour |-> h, day |-> d] :
         h \in IF ReadsClock(context, context.timeOfDay) THEN 0..23 ELSE {0},
         d \in IF ReadsClock(context, context.dayOfWeek) THEN 0..6 ELSE {0} }

\* The signals of the contexts classified, without the time fields.
SignalBundles ==
    { EmptyContext,
      [EmptyContext EXCEPT !.pollResult = JsString("family")],
      [EmptyContext EXCEPT
          !.pollResult = JsString("athlete"),
          !.utmParams = [UtmParams EXCEPT !.utm_persona = JsString("commuter")],
          !.deviceType = JsString("desktop"),
          !.referrer = JsString("https://www.linkedin.com/feed"),
          !.sessionData = [SessionData EXCEPT !.searchTerms = JsNumber(42),
                                              !.cartSize = JsNumber(4)]],
      [EmptyContext EXCEPT
          !.utmParams = [UtmParams EXCEPT !.utm_source = JsString("Strava")]],
      [EmptyContext EXCEPT
          !.utmParams = [UtmParams EXCEPT !.utm_campaign = JsString("kids_sale"),
                                          !.utm_persona = JsString("family")]],
      [EmptyContext EXCEPT
          !.utmParams = [UtmParams EXCEPT !.utm_source = JsString("fitness_blog")],
          !.referrer = JsString("https://runnersworld.example/"),
          !.deviceType = JsString("desktop")],
      [EmptyContext EXCEPT
          !.utmParams = [UtmParams EXCEPT !.utm_content = JsString("daily")]],
      [EmptyContext EXCEPT
          !.utmParams = [UtmParams EXCEPT !.utm_source = JsString("gym"),
                                          !.utm_persona = JsString("athlete")],
          !.referrer = JsString("https://training.example/")],
      [EmptyContext EXCEPT !.deviceType = JsString("mobile")],
      [EmptyContext EXCEPT
          !.deviceType = JsString("tablet"),
          !.sessionData = [SessionData EXCEPT !.cartSize = JsNumber(3)]],
      [EmptyContext EXCEPT !.referrer = JsString("https://www.Hiking-Trails.example/")],
      [EmptyContext EXCEPT !.sessionData = SessionData],
      [EmptyContext EXCEPT
          !.sessionData = [SessionData EXCEPT !.searchTerms = JsString("office chair")]],
      [EmptyContext EXCEPT
          !.sessionData = [SessionData EXCEPT !.searchTerms = JsString("Gym bottle")]],
      [EmptyContext EXCEPT
          !.sessionData = [SessionData EXCEPT !.searchTerms = JsNumber(42)]] }

\* The time fields of a context: both left out, or both supplied, as
\* extractPersonaContext supplies them, for every hour and every day.
TimeFields ==
    { << JsUndefined, JsUndefined >> }
        \cup { << JsNumber(h), JsNumber(d) >> : h \in 0..23, d \in 0..6 }

PersonaContexts ==
    { [b EXCEPT !.timeOfDay = tf[1], !.dayOfWeek = tf[2]] :
         b \in SignalBundles, tf \in TimeFields }

\* No classification asked for.
IdleClassifier == [context |-> EmptyContext, results |-> << >>]

\* One call of classifyPersona(context); a context is classified twice, at
\* any two readings of the clock.
classifyPersona_call ==
    /\ Len(classifier.results) < 2
    /\ \E now \in ClockReadings(classifier.context) :
          classifier' =
              [classifier EXCEPT
                  !.results = Append(@, ClassifyPersona(classifier.context, now))]
    /\ UNCHANGED << svars, avars, pre, xvars, hvars >>

(***************************************************************************)
(* sampleBeta, of lib/bandit.ts and of lib/server/database.ts.             *)
(*                                                                         *)
(* Math.random() may return any double of [0, 1).  Three of them are       *)
(* followed here: 0, 2^-6 and 1 - 2^-53, the largest double below 1.  The  *)
(* doubles the two samplers compute from them are kept exactly, as         *)
(*     g * A + a / 64 + t * 2^-53,                                         *)
(* where A = 4.1588830833596715 is the double -Math.log(2^-6); a sum is    *)
(* rounded to the nearest double, ties to even, as IEEE 754 rounds it.     *)
(***************************************************************************)
Finite(g, a, t) == [k |-> "finite", g |-> g, a |-> a, t |-> t]

PosInfinity == [k |-> "infinity", g |-> 0, a |-> 0, t |-> 0]

NotANumber == [k |-> "nan", g |-> 0, a |-> 0, t |-> 0]

PosZero == Finite(0, 0, 0)

\* A * 2^53 modulo 64: all that rounding needs of the digits of A.
LogResidue == 24

\* The distance between neighbouring doubles at g * A + a / 64 + t * 2^-53, in
\* units of 2^-53 (g below 8, a up to 128, t small).
UlpOf(g, a, t) ==
    IF g >= 4 THEN 32
    ELSE IF g >= 2 THEN 16
    ELSE IF g >= 1 THEN 8
    ELSE IF a > 128 \/ (a = 128 /\ t >= 0) THEN 4
    ELSE IF a > 64 \/ (a = 64 /\ t >= 0) THEN 2
    ELSE 1

\* The double nearest to g * A + a / 64 + t * 2^-53, ties to even.
RoundToDouble(g, a, t) ==
    LET u == UlpOf(g, a, t)
        n == g * LogResidue + t + 64
        r == n % u
        below == Finite(g, a, t - r)
        above == Finite(g, a, t - r + u)
    IN  IF 2 * r < u THEN below
        ELSE IF 2 * r > u THEN above
        ELSE IF ((n - r) \div u) % 2 = 0 THEN below
        ELSE above

\* x + y of two doubles that are not negative.
Plus(x, y) ==
    IF x.k = "nan" \/ y.k = "nan" THEN NotANumber
    ELSE IF x.k = "infinity" \/ y.k = "infinity" THEN PosInfinity
    ELSE RoundToDouble(x.g + y.g, x.a + y.a, x.t + y.t)

\* x / y of two doubles that are not negative, x at most y.  The quotient of
\* two different finite doubles is kept as the pair: rounded to a double it is
\* above 0 and at most 1 - 2^-53.
Over(x, y) ==
    IF x.k = "nan" \/ y.k = "nan" THEN NotANumber
    ELSE IF x.k = "infinity" /\ y.k = "infinity" THEN NotANumber
    ELSE IF x = PosZero /\ y = PosZero THEN NotANumber
    ELSE IF x.k = "infinity" \/ y = PosZero THEN PosInfinity
    ELSE IF y.k = "infinity" \/ x = PosZero THEN PosZero
    ELSE IF x = y THEN Finite(0, 64, 0)
    ELSE [k |-> "quotient", num |-> x, den |-> y]

\* 0 < x and x < 1, as JavaScript compares (false of NaN).
StrictlyInsideUnit(x) ==
    \/ x.k = "quotient"
    \/ /\ x.k = "finite"
       /\ x # PosZero
       /\ x.g = 0
       /\ x.a < 64 \/ (x.a = 64 /\ x.t < 0)

\* What Math.random() returns: 0, 2^-6, 1 - 2^-53.
RandomValues == { PosZero, Finite(0, 1, 0), Finite(0, 64, 0 - 1) }

\* -Math.log(u): Infinity at 0, A at 2^-6, 2^-53 at 1 - 2^-53.
MinusLog(u) ==
    IF u = PosZero THEN PosInfinity
    ELSE IF u = Finite(0, 1, 0) THEN Finite(1, 0, 0)
    ELSE Finite(0, 0, 1)

\* Math.pow(u, 1 / shape) for shape 1 and 2.  The square root of 1 - 2^-53
\* lies between two doubles, and an implementation of Math.pow may return
\* either.
MathPow(u, shape) ==
    IF shape = 1 THEN {u}
    ELSE IF u = PosZero THEN {PosZero}
    ELSE IF u = Finite(0, 1, 0) THEN {Finite(0, 8, 0)}
    ELSE {Finite(0, 64, 0 - 1), Finite(0, 64, 0)}

SampleThrew == [k |-> "threw", g |-> 0, a |-> 0, t |-> 0]

\* sampleBeta of lib/bandit.ts, u and v the two draws, x and y what Math.pow
\* made of them.
sampleBeta(alpha, beta, x, y) ==
    IF alpha <= 0 \/ beta <= 0
    THEN SampleThrew
    ELSE Over(x, Plus(x, y))

\* sampleGammaInteger(shape) with the draws its loop makes: the sum after i of
\* them.
RECURSIVE sampleGammaInteger(_, _)
sampleGammaInteger(draws, i) ==
    IF i = 0
    THEN PosZero
    ELSE Plus(sampleGammaInteger(draws, i - 1), MinusLog(draws[i]))

\* sampleBeta of lib/server/database.ts, with the draws of its two
\* sampleGammaInteger calls.
server_sampleBeta(alpha, beta, draws) ==
    IF alpha <= 0 \/ beta <= 0
    THEN SampleThrew
    ELSE LET x == sampleGammaInteger(SubSeq(draws, 1, alpha), alpha)
             y == sampleGammaInteger(SubSeq(draws, alpha + 1, alpha + beta), beta)
             total == Plus(x, y)
         IN  IF total = PosZero
             THEN Finite(0, 32, 0)
             ELSE Over(x, total)

\* The shapes the samplers are called with.
Shapes == {1, 2}

IdleSampler ==
    [pc |-> "idle", alpha |-> 1, beta |-> 1, impl |-> "", draws |-> << >>,
     ret |-> PosZero]

sampleBeta_call ==
    /\ sampler.pc = "idle"
    /\ \E u \in RandomValues, v \in RandomValues :
          \E x \in MathPow(u, sampler.alpha), y \in MathPow(v, sampler.beta) :
             sampler' =
                 [sampler EXCEPT
                     !.pc = "done",
                     !.impl = "lib/bandit",
                     !.draws = << u, v >>,
                     !.ret = sampleBeta(sampler.alpha, sampler.beta, x, y)]
    /\ UNCHANGED << svars, avars, pre, classifier, hvars, clock, metrics, calls, lvars >>

server_sampleBeta_call ==
    /\ sampler.pc = "idle"
    /\ \E draws \in [1..(sampler.alpha + sampler.beta) -> RandomValues] :
          sampler' =
              [sampler EXCEPT
                  !.pc = "done",
                  !.impl = "lib/server/database",
                  !.draws = draws,
                  !.ret = server_sampleBeta(sampler.alpha, sampler.beta, draws)]
    /\ UNCHANGED << svars, avars, pre, classifier, hvars, clock, metrics, calls, lvars >>

(***************************************************************************)
(* The metrics registry and withMetrics (lib/server/metrics).              *)
(*                                                                         *)
(* clock is what Date.now() returns; time passes between any two steps of  *)
(* the event loop, and between the statements of one step.                 *)
(***************************************************************************)
MaxClock == 2

\* `${name}:${Date.now()}`
MetricKey(name, now) == name \o ":" \o ToString(now)

\* Map.prototype.set: the entry of an existing key is replaced.
MapSet(map, key, value) ==
    {e \in map : e.key # key} \cup {[key |-> key, value |-> value]}

\* MetricsRegistry.recordMetric(name, data), Date.now() reading now.
recordMetric(customMetrics, name, data, now) ==
    MapSet(customMetrics, MetricKey(name, now), data)

\* The calls of withMetrics that are followed, as the test makes them.
WithMetricsCalls ==
    << [agentType |-> "test-agent", operation |-> "op1"],
       [agentType |-> "test-agent", operation |-> "op2"] >>

IdleCall == [pc |-> "idle", start |-> 0, status |-> ""]

\* The data of the 'agent_operation' record withMetrics writes.
OperationData(c, status, duration, now) ==
    [agent_type |-> WithMetricsCalls[c].agentType,
     operation |-> WithMetricsCalls[c].operation,
     status |-> status,
     duration_ms |-> duration,
     timestamp |-> now]

\* The data of the 'agent_metrics' record withMetrics writes.
MetricsData(c, status, duration, now) ==
    [agent_type |-> WithMetricsCalls[c].agentType,
     operation |-> WithMetricsCalls[c].operation,
     type |-> IF status = "success" THEN "latency" ELSE "error",
     value |-> IF status = "success" THEN duration ELSE 1,
     timestamp |-> now]

\* Time passes.
Tick ==
    /\ clock < MaxClock
    /\ clock' = clock + 1
    /\ UNCHANGED << svars, avars, pre, classifier, hvars, sampler, metrics, calls,
                    lvars >>

\* withMetrics up to `await fn()`.
withMetrics_start(c) ==
    /\ calls[c].pc = "idle"
    /\ calls' = [calls EXCEPT ![c] = [@ EXCEPT !.pc = "awaiting", !.start = clock]]
    /\ UNCHANGED << svars, avars, pre, classifier, hvars, sampler, clock, metrics,
                    lvars >>

\* withMetrics after fn() has settled, fulfilled or rejected: the two records
\* are written in one step of the event loop, each under the reading of
\* Date.now() its recordMetric call makes.
withMetrics_settle(c) ==
    /\ calls[c].pc = "awaiting"
    /\ \E status \in {"success", "error"}, now \in clock..MaxClock :
          \E later \in {t \in now..MaxClock : t <= now + 1} :
             LET duration == now - calls[c].start
                 first == recordMetric(metrics, "agent_operation",
                                       OperationData(c, status, duration, now), now)
             IN  /\ metrics' = recordMetric(first, "agent_metrics",
                                   MetricsData(c, status, duration, later), later)
                 /\ clock' = later
                 /\ calls' = [calls EXCEPT ![c] = [@ EXCEPT !.pc = "done",
                                                           !.status = status]]
    /\ UNCHANGED << svars, avars, pre, classifier, hvars, sampler, lvars >>

(***************************************************************************)
(* The in-memory rate limiter (lib/server/rateLimit), as it runs when no   *)
(* Redis is configured.  A check has no await before its return: it is one *)
(* step.                                                                   *)
(***************************************************************************)
\* The options the limiter is called with: in ticks of the clock, and small.
WindowMs == 1

MaxRequests == 2

MaxChecks == 5

RateLimitOptions(prefix) ==
    [windowMs |-> WindowMs, maxRequests |-> MaxRequests, prefix |-> prefix]

\* `rl:${prefix}:${identifier}`
RateLimitKey(prefix, identifier) == "rl:" \o prefix \o ":" \o identifier

MapHas(map, key) == \E e \in map : e.key = key

MapGet(map, key) == (CHOOSE e \in map : e.key = key).value

\* getInMemoryStore(prefix): the store of the prefix, a new one if there is
\* none.
getInMemoryStore(stores, prefix) ==
    IF MapHas(stores, prefix) THEN MapGet(stores, prefix) ELSE {}

\* A limiter that never starts a new window for a key it knows.
CheckRateLimitNoExpiry(stores, identifier, options, now) ==
    LET key == RateLimitKey(options.prefix, identifier)
        store == getInMemoryStore(stores, options.prefix)
    IN  IF ~MapHas(store, key)
        THEN [allowed |-> TRUE, fresh |-> TRUE,
              stores |-> MapSet(stores, options.prefix,
                                MapSet(store, key,
                                       [count |-> 1,
                                        resetTime |-> now + options.windowMs]))]
        ELSE LET current == MapGet(store, key)
             IN  IF current.count >= options.maxRequests
                 THEN [allowed |-> FALSE, fresh |-> FALSE,
                       stores |-> MapSet(stores, options.prefix, store)]
                 ELSE [allowed |-> TRUE, fresh |-> FALSE,
                       stores |-> MapSet(stores, options.prefix,
                                         MapSet(store, key,
                                                [current EXCEPT !.count = @ + 1]))]

\* checkRateLimit(identifier, options), in memory, Date.now() reading now: the
\* answer, whether a window was started, and the stores after the call.
CheckRateLimit(stores, identifier, options, now) ==
    LET key == RateLimitKey(options.prefix, identifier)
        store == getInMemoryStore(stores, options.prefix)
    IN  IF ~MapHas(store, key) \/ now > MapGet(store, key).resetTime
        THEN [allowed |-> TRUE, fresh |-> TRUE,
              stores |-> MapSet(stores, options.prefix,
                                MapSet(store, key,
                                       [count |-> 1,
                                        resetTime |-> now + options.windowMs]))]
        ELSE LET current == MapGet(store, key)
             IN  IF current.count >= options.maxRequests
                 THEN [allowed |-> FALSE, fresh |-> FALSE,
                       stores |-> MapSet(stores, options.prefix, store)]
                 ELSE [allowed |-> TRUE, fresh |-> FALSE,
                       stores |-> MapSet(stores, options.prefix,
                                         MapSet(store, key,
                                                [current EXCEPT !.count = @ + 1]))]

\* The callers of the limiter: a prefix and an identifier each.
LimiterCallers ==
    { << "track", "10.0.0.1" >>, << "track", "10.0.0.2" >>, << "rewrite", "10.0.0.1" >> }

\* checks, history: the calls of checkRateLimit so far, with the reading of the
\* clock, the answer and whether the call started a window.
checkRateLimit_call ==
    /\ Len(checks) < MaxChecks
    /\ \E c \in LimiterCallers :
          LET r == CheckRateLimit(inMemoryStores, c[2], RateLimitOptions(c[1]), clock)
          IN  /\ inMemoryStores' = r.stores
              /\ checks' = Append(checks, [prefix |-> c[1], identifier |-> c[2],
                                           now |-> clock, allowed |-> r.allowed,
                                           fresh |-> r.fresh])
    /\ UNCHANGED << svars, avars, pre, classifier, hvars, sampler, clock, metrics,
                    calls, post >>

(***************************************************************************)
(* POST of the track route (app/api/track/route.ts): the limiter, the      *)
(* body, and processEvent for the event or for each event of the batch.    *)
(* The request is handled by caller 1, whose proc is the processEvent call *)
(* under way.                                                              *)
(***************************************************************************)
MaxBatch == 2

\* The events a body holds: of story s1 and section hero, with or without a
\* variant hash, two of them persona polls, one selecting a persona, one
\* selecting none of the four.
PostedEvents ==
    { [variantHash |-> HashOf("HeroA"), event |-> "ctaClick", poll |-> ""],
      [variantHash |-> HashOf("HeroB"), event |-> "conversion", poll |-> ""],
      [variantHash |-> HashOf("HeroA"), event |-> "view", poll |-> ""],
      [variantHash |-> "", event |-> "ctaClick", poll |-> ""],
      [variantHash |-> HashOf("HeroA"), event |-> "pollPersona", poll |-> "athlete"],
      [variantHash |-> HashOf("HeroA"), event |-> "pollPersona", poll |-> "robot"] }

\* The bodies that pass the schema: one event, or {events: [...]} with up to
\* MaxBatch events (the schema's limit is 10).
PostedBodies ==
    {[batch |-> FALSE, events |-> << e >>] : e \in PostedEvents}
        \cup {[batch |-> TRUE, events |-> es] :
                 es \in UNION {[1..n -> PostedEvents] : n \in 0..MaxBatch}}

\* The processEvent call for an event.
EventCall(e) ==
    [Blank EXCEPT !.op = "processEvent", !.storyId = "s1", !.sectionKey = "hero",
                  !.variantHash = e.variantHash, !.event = e.event, !.poll = e.poll,
                  !.reward = 1]

\* What the loop pushes for an event: {...result, eventId} of a processEvent
\* that returned, {error, eventId} of one that threw.
ResultOf(rec) ==
    [success |-> (rec.outcome = "ok" /\ rec.update = ""),
     personaUpdate |-> IF rec.outcome = "ok" THEN rec.update ELSE "",
     error |-> IF rec.outcome = "ok" THEN "" ELSE "Failed to process event",
     eventId |-> rec.event]

\* A loop that ends at the first event that failed.
LoopGoesOnUnlessFailed(rec, i, n) == i < n /\ rec.outcome = "ok"

\* for (const event of events): after event i of n there is a next one; the
\* catch inside the loop keeps an error from ending it.
LoopGoesOn(rec, i, n) == i < n

IdlePost ==
    [pc |-> "idle", batch |-> FALSE, body |-> << >>, i |-> 0, results |-> << >>,
     status |-> 0, before |-> {}]

\* POST up to the answer of the first store call of the first event: the
\* limiter's answer, the parsed body, the persona of the request.  before is
\* history: the arms as they were when the event under way was taken up.
POST_begin ==
    /\ post.pc = "idle"
    /\ \E ip \in {"10.0.0.1"}, body \in PostedBodies :
          LET r == CheckRateLimit(inMemoryStores, ip, RateLimitOptions("track"), clock)
          IN  /\ inMemoryStores' = r.stores
              /\ IF ~r.allowed
                 THEN /\ post' = [post EXCEPT !.pc = "done", !.status = 429]
                      /\ UNCHANGED << proc, events, started >>
                 ELSE IF body.events = << >>
                      THEN /\ post' = [post EXCEPT !.pc = "done", !.status = 200,
                                                   !.batch = TRUE]
                           /\ UNCHANGED << proc, events, started >>
                      ELSE /\ post' = [post EXCEPT
                                          !.pc = IF body.batch THEN "loop" ELSE "single",
                                          !.batch = body.batch,
                                          !.body = body.events,
                                          !.i = 1,
                                          !.before = banditState]
                           /\ ProcessEventStart(1, EventCall(body.events[1]))
    /\ UNCHANGED << banditState, applied, dbUp, avars, pre, classifier, hvars, sampler,
                    clock, metrics, calls, checks >>

\* The loop of the batch after processEvent has returned or thrown for event
\* i: the result is pushed, and the next event is taken up or the response
\* sent.
POST_next ==
    /\ post.pc = "loop"
    /\ proc[1].pc = "done"
    /\ LET results == Append(post.results, ResultOf(proc[1]))
       IN  IF LoopGoesOn(proc[1], post.i, Len(post.body))
           THEN /\ post' = [post EXCEPT !.results = results, !.i = post.i + 1,
                                        !.before = banditState]
                /\ ProcessEventStart(1, EventCall(post.body[post.i + 1]))
           ELSE /\ post' = [post EXCEPT !.results = results, !.pc = "done",
                                        !.status = 200]
                /\ UNCHANGED << proc, events, started >>
    /\ UNCHANGED << banditState, applied, dbUp, avars, pre, classifier, hvars, sampler,
                    clock, metrics, calls, inMemoryStores, checks >>

\* The single event after processEvent has returned or thrown: the outer
\* catch answers an error with status 500.
POST_single ==
    /\ post.pc = "single"
    /\ proc[1].pc = "done"
    /\ post' = [post EXCEPT !.results = << ResultOf(proc[1]) >>,
                            !.pc = "done",
                            !.status = IF proc[1].outcome = "ok" THEN 200 ELSE 500]
    /\ UNCHANGED << svars, avars, pre, classifier, hvars, sampler, clock, metrics,
                    calls, inMemoryStores, checks >>

\* The helpers outside a run of theirs.
IdleUtilities ==
    /\ sampler = IdleSampler
    /\ clock = 0
    /\ metrics = {}
    /\ calls = [c \in 1..Len(WithMetricsCalls) |-> IdleCall]
    /\ inMemoryStores = {}
    /\ checks = << >>
    /\ post = IdlePost

\* The stores a run starts from: an empty table, or the arms that earlier
\* deployVariant calls created for two stories and two sections.
InitialStores ==
    { {},
      { initializeBanditArm("s1", "hero", HashOf("HeroA")),
        initializeBanditArm("s1", "bullets", HashOf("BulletsA")),
        initializeBanditArm("s2", "hero", HashOf("HeroA")) } }

Init ==
    /\ banditState \in InitialStores
    /\ applied = [k \in {KeyOf(r) : r \in banditState} |-> [ones |-> 0, zeros |-> 0]]
    /\ events = EmptyBag
    /\ dbUp = TRUE
    /\ proc = [p \in Procs |-> Blank]
    /\ started = 0
    /\ storyboards = << >>
    /\ asm = IdleAssembly
    /\ pre = [banditState |-> banditState, events |-> events]
    /\ classifier = IdleClassifier
    /\ IdleUtilities
    /\ hashIn = << HeroA, HeroA >>
    /\ hashOut = << "", "" >>

Next ==
    \/ \E p \in Callers :
          \/ recordConversion_begin(p)
          \/ recordConversion_save(p)
          \/ recordConversion_track(p)
          \/ processEvent_begin(p)
          \/ processEvent_track(p)
          \/ ensureBanditState_save(p)
          \/ deployVariant_begin(p)
          \/ deployVariant_track(p)
          \/ chooseOptimalVariant_begin(p)
          \/ chooseOptimalVariant_get(p)
          \/ chooseOptimalVariant_save(p)
          \/ chooseOptimalVariant_track(p)
          \/ processTimeouts_begin(p)
          \/ processTimeouts_count(p)
          \/ processTimeouts_save(p)
          \/ resetSectionBandit_begin(p)
          \/ resetSectionBandit_save(p)
          \/ resetSectionBandit_track(p)
    \/ WindowPasses

Spec == Init /\ [][Next]_vars

Row(storyId, persona, sections) ==
    [story_id |-> storyId, persona |-> persona, json |-> [sections |-> sections]]

\* The storyboards tables an assembly runs against, newest row first.
StoredStoryboards ==
    { << >>,
      << Row("s1", "commuter", << "HeroA", "BulletsA" >>) >>,
      << Row("s1", "commuter", << "HeroB", "BulletsB" >>),
         Row("s1", "athlete", << "HeroB", "BulletsA" >>),
         Row("s1", "commuter", << "HeroA", "BulletsA" >>) >>,
      << Row("s1", "commuter", << "HeroACta", "BulletsA" >>),
         Row("s2", "commuter", << "HeroB", "BulletsB" >>) >> }

Arm(storyId, sectionKey, variantHash, alpha, beta) ==
    [storyId |-> storyId, sectionKey |-> sectionKey, variantHash |-> variantHash,
     alpha |-> alpha, beta |-> beta]

\* The bandit tables an assembly runs against: empty, or arms with rewards.
AssemblyStores ==
    { {},
      { Arm("s1", "hero", HashOf("HeroA"), 3, 1), Arm("s1", "hero", HashOf("HeroB"), 1, 2),
        Arm("s1", "bullets", HashOf("BulletsA"), 1, 1) } }

InitAssemble ==
    /\ banditState \in AssemblyStores
    /\ applied = [k \in {KeyOf(r) : r \in banditState} |->
                     LET r == CHOOSE x \in banditState : KeyOf(x) = k
                     IN  [ones |-> r.alpha - 1, zeros |-> r.beta - 1]]
    /\ events = EmptyBag
    /\ dbUp \in BOOLEAN
    /\ proc = [p \in Procs |-> Blank]
    /\ started = 0
    /\ storyboards \in StoredStoryboards
    /\ asm = [IdleAssembly EXCEPT !.storeWasUp = dbUp]
    /\ pre = [banditState |-> banditState, events |-> events]
    /\ classifier = IdleClassifier
    /\ IdleUtilities
    /\ hashIn = << HeroA, HeroA >>
    /\ hashOut = << "", "" >>

NextAssemble ==
    \/ assembleStoryboard_begin
    \/ assembleStoryboard_return
    \/ \E p \in Tasks :
          \/ assembleStoryboard_section(p)
          \/ ensureBanditState_save(p)
          \/ chooseOptimalVariant_get(p)
          \/ chooseOptimalVariant_save(p)
          \/ chooseOptimalVariant_track(p)
    \/ StorageFails
    \/ StorageRecovers

SpecAssemble == InitAssemble /\ [][NextAssemble]_vars

\* C4: when the store never answers, assembleStoryboard still returns, with
\* exactly the sections of the base storyboard and an empty map.
C4_CompleteUnderTotalFailure ==
    (asm.pc = "done" /\ ~asm.storeWasUp)
        => /\ asm.outcome = "ok"
           /\ asm.sections = BaseStoryboard.sections
           /\ DOMAIN asm.sectionVariantHashes = {}

\* C5: once the stored versions are listed, the assembly returns whatever
\* happens in a section's task: a section whose task threw gets its base section
\* and no entry in the map of variant hashes, every other section gets the
\* section and the hash chooseOptimalVariant returned for it.
C5_SlotFailureIsolated ==
    (asm.pc = "done" /\ \E p \in Tasks : proc[p].pc = "done")
        => /\ asm.outcome = "ok"
           /\ Len(asm.sections) = Len(BaseStoryboard.sections)
           /\ \A i \in 1..Len(BaseStoryboard.sections) :
                 LET rec == proc[TaskOf(i)]
                     key == SectionKeyOf(BaseStoryboard.sections[i])
                 IN  IF rec.outcome = "threw"
                     THEN /\ asm.sections[i] = BaseStoryboard.sections[i]
                          /\ key \notin DOMAIN asm.sectionVariantHashes
                     ELSE /\ asm.sections[i] = rec.section
                          /\ rec.section \in {rec.cands[j] : j \in 1..Len(rec.cands)}
                          /\ key \in DOMAIN asm.sectionVariantHashes
                          /\ asm.sectionVariantHashes[key] = rec.variantHash
                          /\ rec.variantHash = HashOf(rec.section)

C5_Witness ==
    /\ asm.pc = "done"
    /\ asm.outcome = "ok"
    /\ \E p, q \in Tasks :
          /\ proc[p].outcome = "threw"
          /\ proc[q].outcome = "ok"
          /\ Len(proc[q].cands) > 1
          /\ proc[q].section # BaseStoryboard.sections[SlotOf(q)]


(***************************************************************************)
(* Properties of the strategist and the store.                             *)
(***************************************************************************)
ArmKeys == {<< t[1], t[2], HashOf(t[3]) >> : t \in Targets}

Alpha(k) == getBanditState(k[1], k[2], k[3]).alpha

Beta(k) == getBanditState(k[1], k[2], k[3]).beta

DoneOk(p, op) == proc[p].pc = "done" /\ proc[p].outcome = "ok" /\ proc[p].op = op

\* Caller p's last request was recordConversion(k, 1) and it has returned.
Converted(p, k) ==
    DoneOk(p, "recordConversion") /\ KeyOf(proc[p]) = k /\ proc[p].reward = 1

\* Caller p's last request ensured arm k (deployVariant of the section, or
\* chooseOptimalVariant with the section among its candidates) and has returned.
Ensured(p, k) ==
    \/ DoneOk(p, "deployVariant") /\ KeyOf(proc[p]) = k
    \/ /\ DoneOk(p, "chooseOptimalVariant")
       /\ proc[p].storyId = k[1]
       /\ proc[p].sectionKey = k[2]
       /\ \E i \in 1..Len(proc[p].cands) : HashOf(proc[p].cands[i]) = k[3]

\* Caller p's last request was a processTimeouts sweep that listed arm k and
\* has returned.
Swept(p, k) ==
    /\ DoneOk(p, "processTimeouts")
    /\ \E i \in 1..Len(proc[p].list) : KeyOf(proc[p].list[i]) = k

\* C1: when N callers run recordConversion(story, slot, variant, 1) for the
\* same arm concurrently and nothing else runs, then after all have returned
\* alpha is N greater than before (1, the prior, in every initial store) and
\* beta is unchanged.
C1_NoLostConversion ==
    \A k \in ArmKeys :
        LET S == {p \in Callers : Converted(p, k)}
        IN  (Quiescent /\ S # {} /\ started = Cardinality(S))
                => (Alpha(k) = 1 + Cardinality(S) /\ Beta(k) = 1)

\* C2: when a request that ensures an arm (deployVariant, chooseOptimalVariant)
\* runs concurrently with one recordConversion(.., 1) for the same arm and
\* nothing else runs, the reward is still in the stored state after both have
\* returned: the ensure step has not put the prior over it.
C2_EnsureKeepsReward ==
    \A k \in ArmKeys : \A p, q \in Callers :
        (Quiescent /\ started = 2 /\ Converted(p, k) /\ Ensured(q, k))
            => (Alpha(k) = 2 /\ Beta(k) = 1)

\* C3: when recordConversion(.., 1) runs concurrently with a processTimeouts
\* sweep over the same arm and nothing else runs, then after both have returned
\* the arm's alpha includes the conversion's +1.
C3_SweepKeepsConversion ==
    \A k \in ArmKeys : \A p, q \in Callers :
        (Quiescent /\ started = 2 /\ Converted(p, k) /\ Swept(q, k)) => Alpha(k) = 2

\* C6: every persisted arm has alpha >= 1 and beta >= 1.
C6_CountersPositive == \A r \in banditState : r.alpha >= 1 /\ r.beta >= 1

C6_Witness ==
    /\ \E r \in banditState : r.alpha >= 2 /\ r.beta >= 2
    /\ \E p \in Callers : DoneOk(p, "recordConversion") /\ proc[p].reward = 0

\* C7: whenever no request is in flight, for every arm alpha - 1 is the number
\* of reward-1 applications and beta - 1 the number of reward-0 applications
\* since its creation or last reset.
C7_CountersMatchRewards ==
    Quiescent =>
        \A r \in banditState :
            /\ r.alpha - 1 = AppliedOf(KeyOf(r)).ones
            /\ r.beta - 1 = AppliedOf(KeyOf(r)).zeros

\* C10: a processTimeouts sweep that runs after recordConversion(.., 1) has
\* completed for an arm within the timeout window, with no other request ever
\* in flight beside it, leaves that arm's alpha and beta as it listed them.
C10_ConvertedArmNotPenalized ==
    \A k \in ArmKeys :
        ( /\ Quiescent
          /\ \A q \in Callers \ {1} : proc[q] = Blank
          /\ Swept(1, k)
          /\ \E e \in DOMAIN events :
                /\ << e.storyId, e.sectionKey, e.variantHash >> = k
                /\ e.event = "conversion"
                /\ e.meta = RewardMeta(1)
                /\ ~e.expired )
            => \E i \in 1..Len(proc[1].list) :
                  KeyOf(proc[1].list[i]) = k /\ proc[1].list[i] \in banditState

NoHash == ""

InitHash ==
    /\ hashIn \in AllSections \X AllSections
    /\ hashOut = << NoHash, NoHash >>
    /\ banditState = {}
    /\ applied = << >>
    /\ events = EmptyBag
    /\ dbUp = TRUE
    /\ proc = [p \in Procs |-> Blank]
    /\ started = 0
    /\ storyboards = << >>
    /\ asm = IdleAssembly
    /\ pre = [banditState |-> banditState, events |-> events]
    /\ classifier = IdleClassifier
    /\ IdleUtilities

\* Two callers hash a section each.
HashSections ==
    /\ hashOut = << NoHash, NoHash >>
    /\ hashOut' = << generateVariantHash(hashIn[1]), generateVariantHash(hashIn[2]) >>
    /\ UNCHANGED << hashIn, svars, avars, pre, classifier, xvars >>

NextHash == HashSections

SpecHash == InitHash /\ [][NextHash]_vars

Hashed == hashOut[1] # NoHash /\ hashOut[2] # NoHash

\* C8: hash(A) = hash(B) if and only if A and B are field-for-field identical,
\* nested values included.
C8_HashInjective ==
    Hashed => ((hashOut[1] = hashOut[2]) <=> SameContent(hashIn[1], hashIn[2]))

\* C9: two sections with the same field values get the same identifier
\* whatever order their keys were inserted in.
C9_HashOrderIndependent ==
    (Hashed /\ SameContent(hashIn[1], hashIn[2])) => hashOut[1] = hashOut[2]

C9_Witness ==
    /\ Hashed
    /\ hashIn[1] # hashIn[2]
    /\ ObjectKeys(hashIn[1]) # ObjectKeys(hashIn[2])
    /\ SameContent(hashIn[1], hashIn[2])
    /\ hashOut[1] = hashOut[2]

(***************************************************************************)
(* getSectionPerformance of the strategist: one store call, then the       *)
(* figures of every arm of the section.  A rate is kept as the fraction    *)
(* << alpha, alpha + beta >>; the confidence interval reported with each   *)
(* variant is a function of the same row and is left out.                  *)
(***************************************************************************)
\* The sections getSectionPerformance is asked about.
PerformanceSections == { << "s1", "hero" >>, << "s1", "quotes" >> }

\* a > b for two fractions with positive denominators.
GreaterRate(a, b) == a[1] * b[2] > b[1] * a[2]

\* banditStates.map(state => ({variantHash, alpha, beta, conversionRate, trials}))
PerformanceOf(state) ==
    [variantHash |-> state.variantHash, alpha |-> state.alpha, beta |-> state.beta,
     conversionRate |-> << state.alpha, state.alpha + state.beta >>,
     trials |-> state.alpha + state.beta - 2]

\* A reduce that replaces the best on an equal rate as well.
RECURSIVE BestPerformingLast(_, _, _)
BestPerformingLast(variants, i, best) ==
    IF i > Len(variants) THEN best
    ELSE BestPerformingLast(variants, i + 1,
             IF ~GreaterRate(best.conversionRate, variants[i].conversionRate)
             THEN variants[i] ELSE best)

\* variants.reduce((best, current) =>
\*     current.conversionRate > best.conversionRate ? current : best, variants[0])
\* from element i on, for a list that is not empty.
RECURSIVE BestPerforming(_, _, _)
BestPerforming(variants, i, best) ==
    IF i > Len(variants) THEN best
    ELSE BestPerforming(variants, i + 1,
             IF GreaterRate(variants[i].conversionRate, best.conversionRate)
             THEN variants[i] ELSE best)

\* variants.reduce((sum, v) => sum + v.trials, 0)
RECURSIVE TotalTrials(_, _)
TotalTrials(variants, i) ==
    IF i > Len(variants) THEN 0 ELSE variants[i].trials + TotalTrials(variants, i + 1)

\* What getSectionPerformance returns for the rows the store answered with.
\* On no rows the reduce returns its initial value variants[0], undefined, and
\* bestVariant?.variantHash || '' is the empty string.
SectionPerformance(banditStates) ==
    LET variants == [i \in 1..Len(banditStates) |-> PerformanceOf(banditStates[i])]
    IN  [variants |-> variants,
         bestVariant |-> IF variants = << >> THEN ""
                         ELSE BestPerforming(variants, 1, variants[1]).variantHash,
         totalTrials |-> TotalTrials(variants, 1)]

getSectionPerformance_call(p) ==
    /\ CanStart(p)
    /\ \E s \in PerformanceSections :
          \E banditStates \in RowOrders(getAllBanditStates(s[1], s[2])) :
             LET rec == [Blank EXCEPT !.op = "getSectionPerformance", !.storyId = s[1],
                                      !.sectionKey = s[2]]
             IN  proc' = [proc EXCEPT ![p] =
                     IF ~dbUp THEN Threw(rec)
                     ELSE Returned([rec EXCEPT !.list = banditStates,
                                               !.ret = SectionPerformance(banditStates)])]
    /\ started' = started + 1
    /\ UNCHANGED << banditState, events, applied, OtherVars >>

(***************************************************************************)
(* One operation run alone.  The tables hold what earlier operations left: *)
(* arms with rewards, arms of another story, events inside and outside the *)
(* timeout window.  One request of the strategist, or one direct call of   *)
(* lib/bandit.ts, then runs with nothing else in flight.                   *)
(***************************************************************************)
\* The arm lists chooseVariant is called with directly.
BanditArm(variant, alpha, beta) == [variant |-> variant, alpha |-> alpha, beta |-> beta]

ArmLists ==
    { << >>,
      << BanditArm("v1", 2, 1) >>,
      << BanditArm("v1", 1, 1), BanditArm("v2", 1, 1) >>,
      << BanditArm("v2", 3, 1), BanditArm("v1", 1, 4) >>,
      << BanditArm("v1", 1, 1), BanditArm("v2", 2, 2), BanditArm("v3", 1, 1) >> }

\* A chooseVariant that returns nothing for an empty list.
ChooseVariantCallNoThrow(rec, samples) ==
    IF Len(rec.arms) = 0 THEN Returned(rec)
    ELSE Returned([rec EXCEPT !.variantHash = chooseVariant(rec.arms, samples),
                              !.draws = SampledArms(rec.arms),
                              !.samples = samples])

\* chooseVariant(arms) with the samples its sampleBeta calls return: no arm
\* throws before anything is sampled.
ChooseVariantCall(rec, samples) ==
    IF Len(rec.arms) = 0 THEN Threw(rec)
    ELSE Returned([rec EXCEPT !.variantHash = chooseVariant(rec.arms, samples),
                              !.draws = SampledArms(rec.arms),
                              !.samples = samples])

chooseVariant_call(p) ==
    /\ CanStart(p)
    /\ \E arms \in ArmLists :
          \E samples \in [1..Len(SampledArms(arms)) -> SampleLevels] :
             proc' = [proc EXCEPT ![p] =
                 ChooseVariantCall([Blank EXCEPT !.op = "chooseVariant", !.arms = arms],
                                   samples)]
    /\ started' = started + 1
    /\ UNCHANGED << banditState, events, applied, OtherVars >>

\* The states updateBanditState(state, reward) is called with directly.
UpdateInputs ==
    { initializeBanditArm("s1", "hero", "v1"),
      [initializeBanditArm("s1", "hero", "v2") EXCEPT !.alpha = 3, !.beta = 2],
      [initializeBanditArm("s2", "bullets", "v1") EXCEPT !.alpha = 2, !.beta = 5] }

\* The caller keeps the state it passed in st and gets the returned state in
\* ret: the spread builds a new object.
updateBanditState_call(p) ==
    /\ CanStart(p)
    /\ \E state \in UpdateInputs, reward \in {0, 1} :
          proc' = [proc EXCEPT ![p] =
              Returned([Blank EXCEPT !.op = "updateBanditState", !.st = state,
                                     !.reward = reward,
                                     !.ret = updateBanditState(state, reward)])]
    /\ started' = started + 1
    /\ UNCHANGED << banditState, events, applied, OtherVars >>

EventRow(sectionKey, variantHash, event, meta, expired) ==
    [storyId |-> "s1", persona |-> DefaultPersona, sectionKey |-> sectionKey,
     variantHash |-> variantHash, event |-> event, meta |-> meta, expired |-> expired]

\* The bandit tables left by earlier operations.
SoloStores ==
    { {},
      { Arm("s1", "hero", HashOf("HeroA"), 2, 3), Arm("s1", "hero", HashOf("HeroB"), 3, 2),
        Arm("s1", "bullets", HashOf("BulletsA"), 2, 1),
        Arm("s2", "hero", HashOf("HeroA"), 4, 2) },
      { Arm("s1", "hero", HashOf("HeroA"), 1, 1), Arm("s1", "hero", HashOf("HeroB"), 2, 2) },
      { Arm("s1", "hero", HashOf("HeroB"), 3, 2) } }

\* The events tables left by earlier operations.
SoloEvents ==
    { EmptyBag,
      SetToBag({EventRow("hero", HashOf("HeroA"), "ctaClick", NoMeta, FALSE)}),
      SetToBag({EventRow("hero", HashOf("HeroA"), "ctaClick", NoMeta, TRUE),
                EventRow("hero", HashOf("HeroB"), "view", NoMeta, FALSE)}) }

InitSolo ==
    /\ banditState \in SoloStores
    /\ applied = [k \in {KeyOf(r) : r \in banditState} |->
                     LET r == CHOOSE x \in banditState : KeyOf(x) = k
                     IN  [ones |-> r.alpha - 1, zeros |-> r.beta - 1]]
    /\ events \in SoloEvents
    /\ dbUp = TRUE
    /\ proc = [p \in Procs |-> Blank]
    /\ started = MaxOps - 1
    /\ storyboards = << >>
    /\ asm = IdleAssembly
    /\ pre = [banditState |-> banditState, events |-> events]
    /\ classifier = IdleClassifier
    /\ IdleUtilities
    /\ hashIn = << HeroA, HeroA >>
    /\ hashOut = << "", "" >>

NextSolo ==
    \E p \in Callers :
       \/ recordConversion_begin(p)
       \/ recordConversion_save(p)
       \/ recordConversion_track(p)
       \/ processEvent_begin(p)
       \/ processEvent_track(p)
       \/ ensureBanditState_save(p)
       \/ deployVariant_begin(p)
       \/ deployVariant_track(p)
       \/ chooseOptimalVariant_begin(p)
       \/ chooseOptimalVariant_get(p)
       \/ chooseOptimalVariant_save(p)
       \/ chooseOptimalVariant_track(p)
       \/ processTimeouts_begin(p)
       \/ processTimeouts_count(p)
       \/ processTimeouts_save(p)
       \/ resetSectionBandit_begin(p)
       \/ resetSectionBandit_save(p)
       \/ resetSectionBandit_track(p)
       \/ chooseVariant_call(p)
       \/ updateBanditState_call(p)
       \/ getSectionPerformance_call(p)

SpecSolo == InitSolo /\ [][NextSolo]_vars

\* The operation that ran alone, and its outcome.
Solo == proc[1]

SoloDone(op) == Solo.pc = "done" /\ Solo.outcome = "ok" /\ Solo.op = op

SoloThrew(op) == Solo.pc = "done" /\ Solo.outcome = "threw" /\ Solo.op = op

\* The number of rows of a table of events that getConversionEvents counts for
\* an arm.
WindowConversions(table, r) ==
    LET sel == {e \in DOMAIN table :
                   /\ e.storyId = r.storyId
                   /\ e.sectionKey = r.sectionKey
                   /\ e.variantHash = r.variantHash
                   /\ ~e.expired
                   /\ e.event \in ConversionEventKinds}
    IN  BagCardinality([e \in sel |-> table[e]])

\* C11: after one processTimeouts(story) that ran alone, every arm of the
\* story with no conversion event in the window has beta one higher and the
\* same alpha, and the arms of other stories are as they were: none changed,
\* none added, none removed.
C11_SweepPenalizesIdleArms ==
    SoloDone("processTimeouts")
        => /\ \A r \in pre.banditState :
                 (r.storyId = Solo.storyId /\ WindowConversions(pre.events, r) = 0)
                     => [r EXCEPT !.beta = r.beta + 1] \in banditState
           /\ {r \in banditState : r.storyId # Solo.storyId}
                 = {r \in pre.banditState : r.storyId # Solo.storyId}
           /\ {KeyOf(r) : r \in banditState} = {KeyOf(r) : r \in pre.banditState}

C11_Witness ==
    /\ SoloDone("processTimeouts")
    /\ \E r \in pre.banditState :
          r.storyId = Solo.storyId /\ WindowConversions(pre.events, r) = 0 /\ r.alpha > 1
    /\ \E r \in pre.banditState :
          r.storyId = Solo.storyId /\ WindowConversions(pre.events, r) > 0
    /\ \E r \in pre.banditState : r.storyId # Solo.storyId

(***************************************************************************)
(* The page: app/(site)/s/[storyId]/page.tsx assembles the storyboard and  *)
(* hands it to StoryboardRenderer, whose CTA clicks come back to the track *)
(* endpoint.  The store answers throughout, and one request reaches the    *)
(* track endpoint: the click, or an event of another client.               *)
(***************************************************************************)
SectionTypeOf(name) == GetProp(Content(name), "type").s

\* The section types renderSection gives an onCtaClick.
CtaSectionTypes == {"hero", "tiers"}

\* The variant hash renderSection passes to handleCtaClick for a section: the
\* literal ''; the sectionVariantHashes the page passes is not among the
\* props StoryboardRenderer reads.
RenderedVariantHash(sectionVariantHashes, sectionKey) == ""

\* handleCtaClick -> trackCtaClick -> track -> POST /api/track -> processEvent,
\* up to the answer of processEvent's first store call.
handleCtaClick(p) ==
    /\ asm.pc = "done"
    /\ asm.outcome = "ok"
    /\ CanStart(p)
    /\ \E i \in 1..Len(asm.sections) :
          /\ SectionTypeOf(asm.sections[i]) \in CtaSectionTypes
          /\ ProcessEventStart(p,
                 [Blank EXCEPT !.op = "processEvent",
                               !.storyId = AssembledStory,
                               !.sectionKey = SectionKeyOf(asm.sections[i]),
                               !.variantHash =
                                   RenderedVariantHash(asm.sectionVariantHashes,
                                                       SectionKeyOf(asm.sections[i])),
                               !.event = "ctaClick",
                               !.reward = 1,
                               !.section = asm.sections[i]])
    /\ UNCHANGED << banditState, applied, OtherVars >>

\* The bandit tables a page is requested against.
PageStores == AssemblyStores \cup { { Arm("s1", "hero", HashOf("HeroA"), 3, 1) } }

InitPage ==
    /\ banditState \in PageStores
    /\ applied = [k \in {KeyOf(r) : r \in banditState} |->
                     LET r == CHOOSE x \in banditState : KeyOf(x) = k
                     IN  [ones |-> r.alpha - 1, zeros |-> r.beta - 1]]
    /\ events = EmptyBag
    /\ dbUp = TRUE
    /\ proc = [p \in Procs |-> Blank]
    /\ started = MaxOps - 1
    /\ storyboards \in StoredStoryboards
    /\ asm = IdleAssembly
    /\ pre = [banditState |-> banditState, events |-> events]
    /\ classifier = IdleClassifier
    /\ IdleUtilities
    /\ hashIn = << HeroA, HeroA >>
    /\ hashOut = << "", "" >>

NextPage ==
    \/ assembleStoryboard_begin
    \/ assembleStoryboard_return
    \/ \E p \in Tasks :
          \/ assembleStoryboard_section(p)
          \/ ensureBanditState_save(p)
          \/ chooseOptimalVariant_get(p)
          \/ chooseOptimalVariant_save(p)
          \/ chooseOptimalVariant_track(p)
    \/ \E p \in Callers :
          \/ handleCtaClick(p)
          \/ processEvent_begin(p)
          \/ recordConversion_save(p)
          \/ recordConversion_track(p)
          \/ processEvent_track(p)

SpecPage == InitPage /\ [][NextPage]_vars

\* No request has reached the track endpoint.
NoTrackRequest == \A p \in Callers : proc[p] = Blank

StoredKeys == {KeyOf(r) : r \in banditState}

\* The alpha an arm had when the run began; an arm created since began at 1.
PreAlpha(k) ==
    LET rows == {r \in pre.banditState : KeyOf(r) = k}
    IN  IF rows = {} THEN 1 ELSE (CHOOSE r \in rows : TRUE).alpha

\* C12: when the click on a CTA of an assembled section has been processed, the
\* event it sent carried the variant hash the assembler selected for the
\* section, and the alpha of the arm (story, section, that hash) is one higher.
C12_ClickAttributed ==
    \A p \in Callers :
       (DoneOk(p, "processEvent") /\ proc[p].section # ""
          /\ proc[p].sectionKey \in DOMAIN asm.sectionVariantHashes)
           => LET hash == asm.sectionVariantHashes[proc[p].sectionKey]
                  k    == << proc[p].storyId, proc[p].sectionKey, hash >>
              IN  /\ proc[p].variantHash = hash
                  /\ k \in StoredKeys
                  /\ Alpha(k) = PreAlpha(k) + 1

\* C13: chooseOptimalVariant with one candidate returns the candidate, its
\* hash, confidence 1.0 and isNew = false, samples nothing and appends no
\* selection event; the arm is stored as it was, or at (1,1) if it was
\* missing.  A storyboard whose every section has one candidate is assembled
\* as the base storyboard, with an arm for every section.
C13_SingleCandidateFastPath ==
    NoTrackRequest
        => /\ \A p \in Tasks :
                 (proc[p].pc = "done" /\ Len(proc[p].cands) = 1)
                     => LET rec == proc[p]
                            k == << rec.storyId, rec.sectionKey, HashOf(rec.cands[1]) >>
                            before == {r \in pre.banditState : KeyOf(r) = k}
                        IN  /\ rec.outcome = "ok"
                            /\ rec.section = rec.cands[1]
                            /\ rec.variantHash = HashOf(rec.cands[1])
                            /\ rec.confidence = One
                            /\ ~rec.isNew
                            /\ rec.draws = << >>
                            /\ IF before = {}
                               THEN initializeBanditArm(k[1], k[2], k[3]) \in banditState
                               ELSE before \subseteq banditState
                            /\ \A e \in DOMAIN events :
                                  ~(e.event = "variantSelected"
                                      /\ e.sectionKey = rec.sectionKey)
           /\ (asm.pc = "done" /\ \A p \in Tasks : Len(proc[p].cands) = 1)
                 => /\ asm.outcome = "ok"
                    /\ asm.sections = BaseStoryboard.sections
                    /\ \A i \in 1..Len(BaseStoryboard.sections) :
                          << AssembledStory, SectionKeyOf(BaseStoryboard.sections[i]),
                             HashOf(BaseStoryboard.sections[i]) >> \in StoredKeys
                    /\ events = pre.events

C13_Witness ==
    /\ NoTrackRequest
    /\ asm.pc = "done"
    /\ \A p \in Tasks : Len(proc[p].cands) = 1
    /\ \E r \in pre.banditState : r.alpha > 1 /\ r \in banditState
    /\ \E r \in banditState : KeyOf(r) \notin {KeyOf(x) : x \in pre.banditState}

\* C14: chooseOptimalVariant with several candidates, run alone, returns one
\* of the candidates with the hash of that candidate; the hash is the arm
\* chooseVariant picks for some samples; the confidence is alpha / (alpha +
\* beta) of that arm in the store, and isNew says whether that arm is at (1,1).
C14_MultiCandidateChoice ==
    (SoloDone("chooseOptimalVariant") /\ Len(Solo.cands) > 1)
        => /\ \E i \in 1..Len(Solo.cands) :
                 /\ Solo.section = Solo.cands[i]
                 /\ Solo.variantHash = HashOf(Solo.cands[i])
           /\ \E samples \in [1..Len(Solo.arms) -> SampleLevels] :
                 Solo.variantHash = chooseVariant(Solo.arms, samples)
           /\ LET state == getBanditState(Solo.storyId, Solo.sectionKey, Solo.variantHash)
              IN  /\ state # NullState
                  /\ Solo.confidence = << state.alpha, state.alpha + state.beta >>
                  /\ Solo.isNew <=> (state.alpha = 1 /\ state.beta = 1)

C14_Witness ==
    /\ SoloDone("chooseOptimalVariant")
    /\ Len(Solo.cands) > 1
    /\ Solo.section = Solo.cands[2]
    /\ ~Solo.isNew
    /\ Solo.confidence = << 3, 5 >>

\* C15: chooseOptimalVariant with no candidate, and chooseVariant with no arm,
\* end with an error; nothing was sampled, and the tables of arms and of events
\* are as they were before the call.
C15_EmptyInputFails ==
    /\ (Solo.pc = "done" /\ Solo.op = "chooseOptimalVariant" /\ Solo.cands = << >>)
          => /\ Solo.outcome = "threw"
             /\ Solo.draws = << >>
             /\ banditState = pre.banditState
             /\ events = pre.events
    /\ (Solo.pc = "done" /\ Solo.op = "chooseVariant" /\ Solo.arms = << >>)
          => /\ Solo.outcome = "threw"
             /\ Solo.draws = << >>
             /\ banditState = pre.banditState
             /\ events = pre.events

C15_Witness ==
    /\ SoloThrew("chooseOptimalVariant")
    /\ Solo.cands = << >>
    /\ banditState # {}
    /\ events # EmptyBag

C17_LoneArmNoSampling ==
    (Solo.pc = "done" /\ Solo.op = "chooseVariant" /\ Len(Solo.arms) = 1)
        => /\ Solo.outcome = "ok"
           /\ Solo.variantHash = Solo.arms[1].variant
           /\ Solo.draws = << >>
           /\ Solo.samples = << >>

C17_Witness ==
    /\ SoloDone("chooseVariant")
    /\ Len(Solo.arms) = 1
    /\ Solo.arms[1].alpha > 1

\* C18: updateBanditState(state, reward) with reward 0 or 1 returns a state
\* with alpha + reward and beta + (1 - reward) and the same story, section and
\* variant: one of the two counters is one higher, the other the same.  The
\* state passed in is as it was.
C18_UpdateAddsReward ==
    (Solo.pc = "done" /\ Solo.op = "updateBanditState")
        => /\ Solo.outcome = "ok"
           /\ Solo.st \in UpdateInputs
           /\ Solo.ret.alpha = Solo.st.alpha + Solo.reward
           /\ Solo.ret.beta = Solo.st.beta + (1 - Solo.reward)
           /\ KeyOf(Solo.ret) = KeyOf(Solo.st)
           /\ DOMAIN Solo.ret = DOMAIN Solo.st
           /\ \/ Solo.ret.alpha = Solo.st.alpha + 1 /\ Solo.ret.beta = Solo.st.beta
              \/ Solo.ret.alpha = Solo.st.alpha /\ Solo.ret.beta = Solo.st.beta + 1

C18_Witness ==
    /\ SoloDone("updateBanditState")
    /\ Solo.reward = 0
    /\ Solo.st.alpha = 3
    /\ Solo.st.beta = 2
    /\ Solo.ret.alpha = 3
    /\ Solo.ret.beta = 3

\* The row trackEvent inserts for an operation's arm.
ArmEvent(rec, event, meta) ==
    [storyId |-> rec.storyId, persona |-> DefaultPersona, sectionKey |-> rec.sectionKey,
     variantHash |-> rec.variantHash, event |-> event, meta |-> meta,
     expired |-> FALSE]

\* C19: recordConversion, run alone for an arm that was not stored, stores it
\* as the prior with the reward applied, (2,1) for reward 1 and (1,2) for
\* reward 0, and appends one 'conversion' event of the arm; the event is not
\* there before the arm is stored.
C19_ConversionCreatesArm ==
    (Solo.op = "recordConversion" /\ KeyOf(Solo) \notin {KeyOf(r) : r \in pre.banditState})
        => LET arm == [storyId |-> Solo.storyId, sectionKey |-> Solo.sectionKey,
                       variantHash |-> Solo.variantHash,
                       alpha |-> IF Solo.reward = 1 THEN 2 ELSE 1,
                       beta |-> IF Solo.reward = 1 THEN 1 ELSE 2]
               row == ArmEvent(Solo, "conversion", RewardMeta(Solo.reward))
           IN  /\ Solo.pc = "done"
                  => /\ Solo.outcome = "ok"
                     /\ banditState = pre.banditState \cup {arm}
                     /\ events = pre.events (+) SetToBag({row})
               /\ events # pre.events => arm \in banditState

C19_Witness ==
    /\ SoloDone("recordConversion")
    /\ KeyOf(Solo) \notin {KeyOf(r) : r \in pre.banditState}
    /\ Solo.reward = 0
    /\ pre.events # EmptyBag

\* C20: deployVariant, run alone, returns the hash of the section, leaves an
\* arm stored for it, and appends one 'variantDeployed' event; every arm that
\* was stored is as it was, and the only arm that can be new is the section's,
\* at (1,1).
C20_DeployKeepsCounts ==
    SoloDone("deployVariant")
        => /\ Solo.variantHash = HashOf(Solo.section)
           /\ KeyOf(Solo) \in StoredKeys
           /\ pre.banditState \subseteq banditState
           /\ \A r \in banditState \ pre.banditState :
                 r = initializeBanditArm(Solo.storyId, Solo.sectionKey, Solo.variantHash)
           /\ events = pre.events (+) SetToBag({ArmEvent(Solo, "variantDeployed", NoMeta)})

C20_Witness ==
    /\ SoloDone("deployVariant")
    /\ \E r \in pre.banditState : KeyOf(r) = KeyOf(Solo) /\ r.alpha > 1 /\ r.beta > 1

\* The rows of a table of arms stored under a (story, section key).
ArmsOfSlot(table, storyId, sectionKey) ==
    {r \in table : r.storyId = storyId /\ r.sectionKey = sectionKey}

\* C21: after one resetSectionBandit(story, slot) that ran alone, every arm
\* that was stored under the (story, slot) is stored with alpha = 1 and
\* beta = 1, no arm is removed or added, the arms of every other slot and
\* story are as they were, and the events table has gained one row, a
\* 'banditReset' event of the (story, slot).
C21_ResetOnlyItsSlot ==
    SoloDone("resetSectionBandit")
        => /\ \A r \in ArmsOfSlot(pre.banditState, Solo.storyId, Solo.sectionKey) :
                 [r EXCEPT !.alpha = 1, !.beta = 1] \in banditState
           /\ {KeyOf(r) : r \in banditState} = {KeyOf(r) : r \in pre.banditState}
           /\ banditState \ ArmsOfSlot(banditState, Solo.storyId, Solo.sectionKey)
                 = pre.banditState
                      \ ArmsOfSlot(pre.banditState, Solo.storyId, Solo.sectionKey)
           /\ events = pre.events (+) SetToBag({ArmEvent(Solo, "banditReset", NoMeta)})

C21_Witness ==
    /\ SoloDone("resetSectionBandit")
    /\ \E r \in ArmsOfSlot(pre.banditState, Solo.storyId, Solo.sectionKey) :
          r.alpha > 1 /\ r.beta > 1
    /\ \E r \in pre.banditState :
          r.storyId = Solo.storyId /\ r.sectionKey # Solo.sectionKey /\ r.alpha > 1
    /\ \E r \in pre.banditState : r.storyId # Solo.storyId /\ r.alpha > 1
    /\ pre.events # EmptyBag

\* The sum of alpha + beta - 2 over a set of rows.
RECURSIVE TrialsOfRows(_)
TrialsOfRows(rows) ==
    IF rows = {} THEN 0
    ELSE LET r == CHOOSE x \in rows : TRUE
         IN  (r.alpha + r.beta - 2) + TrialsOfRows(rows \ {r})

\* alpha / (alpha + beta) of row a is greater than that of row b.
HigherEstimate(a, b) == a.alpha * (b.alpha + b.beta) > b.alpha * (a.alpha + a.beta)

\* C22: getSectionPerformance(story, slot) reports one variant per stored arm
\* of the slot, each with trials = alpha + beta - 2 of its row and never
\* negative; totalTrials is the sum of the trials; bestVariant is the hash of
\* the first reported arm whose alpha / (alpha + beta) no arm of the slot
\* exceeds, and the empty string when the slot has no arm.
C22_PerformanceFigures ==
    SoloDone("getSectionPerformance")
        => LET rows == ArmsOfSlot(banditState, Solo.storyId, Solo.sectionKey)
               v    == Solo.ret.variants
               Row_(i) == CHOOSE r \in rows : r.variantHash = v[i].variantHash
           IN  /\ Len(v) = Cardinality(rows)
               /\ {v[i].variantHash : i \in 1..Len(v)} = {r.variantHash : r \in rows}
               /\ \A i \in 1..Len(v) :
                     /\ v[i].trials = Row_(i).alpha + Row_(i).beta - 2
                     /\ v[i].trials >= 0
               /\ Solo.ret.totalTrials = TrialsOfRows(rows)
               /\ rows = {} => Solo.ret.bestVariant = ""
               /\ rows # {} =>
                     \E i \in 1..Len(v) :
                        /\ Solo.ret.bestVariant = v[i].variantHash
                        /\ \A j \in 1..Len(v) : ~HigherEstimate(Row_(j), Row_(i))
                        /\ \A j \in 1..(i - 1) : HigherEstimate(Row_(i), Row_(j))

\* Two arms share the highest estimate, one of them with trials, and the
\* first of the two is reported.
C22_Witness ==
    /\ SoloDone("getSectionPerformance")
    /\ Len(Solo.ret.variants) = 2
    /\ Solo.ret.variants[1].trials > 0
    /\ Solo.ret.variants[1].conversionRate # Solo.ret.variants[2].conversionRate
    /\ ~GreaterRate(Solo.ret.variants[1].conversionRate, Solo.ret.variants[2].conversionRate)
    /\ ~GreaterRate(Solo.ret.variants[2].conversionRate, Solo.ret.variants[1].conversionRate)
    /\ Solo.ret.bestVariant = Solo.ret.variants[1].variantHash
    /\ Solo.ret.totalTrials = 2

\* The sections getSectionVariants gathers for a task before it removes any:
\* the base section, then the section of the key of every listed row.
Gathered(p) ==
    << BaseStoryboard.sections[SlotOf(p)] >> \o SectionsToHash(asm.all, proc[p].sectionKey, 1)

\* A task that has called chooseOptimalVariant.
HandedOver(p) == p \in Tasks /\ proc[p].pc \notin {"idle", "task_start"}

\* C23: the candidate list a task hands to chooseOptimalVariant starts with
\* the base section of its slot, holds only sections of the slot's key, holds
\* no two sections with the same variant identifier, and holds of every
\* gathered identifier the first gathered section that has it.
C23_CandidatesDistinct ==
    \A p \in Tasks :
       HandedOver(p)
          => LET cands == proc[p].cands
                 g     == Gathered(p)
             IN  /\ Len(cands) >= 1
                 /\ cands[1] = BaseStoryboard.sections[SlotOf(p)]
                 /\ \A i \in 1..Len(cands) : SectionKeyOf(cands[i]) = proc[p].sectionKey
                 /\ \A i, j \in 1..Len(cands) :
                       HashOf(cands[i]) = HashOf(cands[j]) => i = j
                 /\ \A j \in 1..Len(g) :
                       \E i \in 1..Len(cands) :
                          /\ HashOf(cands[i]) = HashOf(g[j])
                          /\ \E k \in 1..j :
                                /\ g[k] = cands[i]
                                /\ \A l \in 1..(k - 1) : HashOf(g[l]) # HashOf(g[k])

\* A task gathered the base section, another variant and the base section
\* again, and handed over two candidates.
C23_Witness ==
    \E p \in Tasks :
       /\ HandedOver(p)
       /\ Len(Gathered(p)) = 3
       /\ Len(proc[p].cands) = 2
       /\ proc[p].cands[2] # proc[p].cands[1]

\* C24: whatever order the tasks of the slots finish in, the i-th section of
\* the assembled storyboard has the key of the i-th base section, and every
\* entry of the returned map of variant hashes is the hash of the section
\* placed in the slot of that key.
C24_OrderAndAttribution ==
    (asm.pc = "done" /\ asm.outcome = "ok")
        => /\ Len(asm.sections) = Len(BaseStoryboard.sections)
           /\ \A i \in 1..Len(asm.sections) :
                 SectionKeyOf(asm.sections[i]) = SectionKeyOf(BaseStoryboard.sections[i])
           /\ \A k \in DOMAIN asm.sectionVariantHashes :
                 \E i \in 1..Len(asm.sections) :
                    /\ SectionKeyOf(BaseStoryboard.sections[i]) = k
                    /\ asm.sectionVariantHashes[k] = HashOf(asm.sections[i])

\* Both slots were resolved among several candidates, to sections other than
\* the base sections, and both have an entry in the map.
C24_Witness ==
    /\ asm.pc = "done" /\ asm.outcome = "ok"
    /\ \A i \in 1..Len(BaseStoryboard.sections) :
          /\ asm.sections[i] # BaseStoryboard.sections[i]
          /\ SectionKeyOf(BaseStoryboard.sections[i]) \in DOMAIN asm.sectionVariantHashes

(***************************************************************************)
(* The classifier on its own: a context of PersonaContexts is classified   *)
(* twice, the clock reading anything at each call.                         *)
(***************************************************************************)
InitPersona ==
    /\ classifier \in {[IdleClassifier EXCEPT !.context = c] : c \in PersonaContexts}
    /\ IdleUtilities
    /\ banditState = {}
    /\ applied = << >>
    /\ events = EmptyBag
    /\ dbUp = TRUE
    /\ proc = [p \in Procs |-> Blank]
    /\ started = 0
    /\ storyboards = << >>
    /\ asm = IdleAssembly
    /\ pre = [banditState |-> banditState, events |-> events]
    /\ hashIn = << HeroA, HeroA >>
    /\ hashOut = << "", "" >>

NextPersona == classifyPersona_call

SpecPersona == InitPersona /\ [][NextPersona]_vars

\* What the calls made so far came back with.
Results == {classifier.results[i] : i \in 1..Len(classifier.results)}

Polled == Truthy(classifier.context.pollResult)

\* C25: with a poll selection X in the context, every call returns label X,
\* confidence 0.95 and the explicit-selection rationale, whatever the other
\* signals and the clock are.
C25_PollShortCircuits ==
    Polled
        => \A r \in Results :
              /\ r.outcome = "ok"
              /\ r.label = classifier.context.pollResult.s
              /\ r.confidence = Double(95, 0 - 80)
              /\ r.reasoning = "Direct user selection via poll"

\* The poll selects one segment while the campaign, the device and the
\* referrer point to another and the session data cannot be read.
C25_Witness ==
    /\ Polled
    /\ Len(classifier.results) = 2
    /\ classifier.context.utmParams.utm_persona.s = "commuter"
    /\ SearchTermsThrow(classifier.context)
    /\ Truthy(classifier.context.timeOfDay)
    /\ classifier.results[1].label = "athlete"

\* C26: classifyPersona({}) returns 'commuter' with confidence 0.3, at every
\* hour and day the call is made.
C26_EmptyBundleAtFloor ==
    classifier.context = EmptyContext
        => \A r \in Results :
              /\ r.outcome = "ok"
              /\ r.label = "commuter"
              /\ r.confidence = Double(30, 0 - 20)

\* C27: two calls with the same context, timeOfDay and dayOfWeek supplied,
\* return the same label and confidence whatever the clock reads at each.
C27_DeterministicGivenTime ==
    (/\ classifier.context.timeOfDay.t = "number"
     /\ classifier.context.dayOfWeek.t = "number")
        => \A r1, r2 \in Results :
              /\ r1.outcome = r2.outcome
              /\ r1.label = r2.label
              /\ r1.confidence = r2.confidence

\* C28: without a poll selection every returned confidence is within
\* [0.3, 0.95]; a returned label other than 'commuter' comes with a
\* confidence of at least 0.4; and a top segment other than 'commuter' whose
\* margin is below 0.4 is replaced by 'commuter' at confidence 0.4.
C28_ConfidenceRange ==
    ~Polled
        => \A r \in Results :
              r.outcome = "ok"
                 => /\ ~FlLess(r.confidence, Double(30, 0 - 20))
                    /\ ~FlLess(Double(95, 0 - 80), r.confidence)
                    /\ r.label # "commuter" => ~FlLess(r.confidence, Double(40, 40))
                    /\ (r.top # "commuter" /\ FlLess(r.margin, Double(40, 40)))
                           => r.label = "commuter" /\ r.confidence = Double(40, 40)

\* One call was overridden from a top segment whose margin, 0.4 in exact
\* arithmetic, is below 0.4 as a double; the other kept its top segment.
C28_Witness ==
    /\ ~Polled
    /\ Len(classifier.results) = 2
    /\ classifier.results[1].top = "athlete"
    /\ classifier.results[1].margin.h = 40
    /\ classifier.results[1].label = "commuter"
    /\ classifier.results[2].label = "athlete"
    /\ FlLess(Double(40, 40), classifier.results[2].confidence)

\* C29: the rationale is the default-classification string exactly when no
\* rule was triggered, and every triggered rule, the search-term rules
\* included, has a description in the rationale.
C29_RationaleListsRules ==
    ~Polled
        => \A r \in Results :
              r.outcome = "ok"
                 => /\ (r.reasoning = "Default classification") <=> (r.triggered = << >>)
                    /\ \A i \in 1..Len(r.triggered) :
                          /\ r.triggered[i].texts # << >>
                          /\ \A j \in 1..Len(r.triggered[i].texts) :
                                Includes(r.reasoning, r.triggered[i].texts[j])

\* C30: every call returns, with a label of the four segments.
C30_NeverThrows ==
    \A r \in Results :
       /\ r.outcome = "ok"
       /\ \E i \in 1..Len(Segments) : Segments[i] = r.label


(***************************************************************************)
(* The samplers on their own: one call of sampleBeta, of lib/bandit.ts or  *)
(* of lib/server/database.ts, with shapes of Shapes.                       *)
(***************************************************************************)
InitSample ==
    /\ sampler \in {[IdleSampler EXCEPT !.alpha = a, !.beta = b] :
                       a \in Shapes, b \in Shapes}
    /\ clock = 0
    /\ metrics = {}
    /\ calls = [c \in 1..Len(WithMetricsCalls) |-> IdleCall]
    /\ inMemoryStores = {}
    /\ checks = << >>
    /\ post = IdlePost
    /\ classifier = IdleClassifier
    /\ banditState = {}
    /\ applied = << >>
    /\ events = EmptyBag
    /\ dbUp = TRUE
    /\ proc = [p \in Procs |-> Blank]
    /\ started = 0
    /\ storyboards = << >>
    /\ asm = IdleAssembly
    /\ pre = [banditState |-> banditState, events |-> events]
    /\ hashIn = << HeroA, HeroA >>
    /\ hashOut = << "", "" >>

NextSample ==
    \/ sampleBeta_call
    \/ server_sampleBeta_call

SpecSample == InitSample /\ [][NextSample]_vars

\* C31: whatever Math.random() returns, sampleBeta(alpha, beta) with positive
\* whole alpha and beta returns a number above 0 and below 1.
C31_SampleStrictlyInside ==
    sampler.pc = "done" => StrictlyInsideUnit(sampler.ret)


(***************************************************************************)
(* withMetrics on its own: the calls of WithMetricsCalls overlap in any    *)
(* way while time passes.                                                  *)
(***************************************************************************)
InitMetrics ==
    /\ IdleUtilities
    /\ classifier = IdleClassifier
    /\ banditState = {}
    /\ applied = << >>
    /\ events = EmptyBag
    /\ dbUp = TRUE
    /\ proc = [p \in Procs |-> Blank]
    /\ started = 0
    /\ storyboards = << >>
    /\ asm = IdleAssembly
    /\ pre = [banditState |-> banditState, events |-> events]
    /\ hashIn = << HeroA, HeroA >>
    /\ hashOut = << "", "" >>

NextMetrics ==
    \/ Tick
    \/ \E c \in 1..Len(WithMetricsCalls) : withMetrics_start(c)
    \/ \E c \in 1..Len(WithMetricsCalls) : withMetrics_settle(c)

SpecMetrics == InitMetrics /\ [][NextMetrics]_vars

\* The 'agent_operation' records of the registry.
OperationRecords ==
    {e \in metrics : \E t \in 0..MaxClock : e.key = MetricKey("agent_operation", t)}

\* C32: once the calls of withMetrics have completed, however they overlapped
\* and whatever the clock read when they finished, the registry holds one
\* 'agent_operation' record per call, with the call's agent type, operation and
\* status.
C32_EveryCallRecorded ==
    (\A c \in DOMAIN calls : calls[c].pc = "done")
        => /\ Cardinality(OperationRecords) = Len(WithMetricsCalls)
           /\ \A c \in DOMAIN calls :
                 \E e \in OperationRecords :
                    /\ e.value.agent_type = WithMetricsCalls[c].agentType
                    /\ e.value.operation = WithMetricsCalls[c].operation
                    /\ e.value.status = calls[c].status


(***************************************************************************)
(* Sweeps in sequence: processTimeouts is called for story s1 again and    *)
(* again, each call after the one before has returned, while the window    *)
(* of the conversion count moves on.  The store answers throughout.        *)
(***************************************************************************)
InitSweeps ==
    /\ banditState \in SoloStores
    /\ applied = [k \in {KeyOf(r) : r \in banditState} |->
                     LET r == CHOOSE x \in banditState : KeyOf(x) = k
                     IN  [ones |-> r.alpha - 1, zeros |-> r.beta - 1]]
    /\ events \in SoloEvents
    /\ dbUp = TRUE
    /\ proc = [p \in Procs |-> Blank]
    /\ started = 0
    /\ storyboards = << >>
    /\ asm = IdleAssembly
    /\ pre = [banditState |-> banditState, events |-> events]
    /\ classifier = IdleClassifier
    /\ IdleUtilities
    /\ hashIn = << HeroA, HeroA >>
    /\ hashOut = << "", "" >>

NextSweeps ==
    \/ processTimeouts_begin(1)
    \/ processTimeouts_count(1)
    \/ processTimeouts_save(1)
    \/ WindowPasses

SpecSweeps == InitSweeps /\ [][NextSweeps]_vars

\* The sweeps that have returned.
SweepsReturned == IF Idle(1) THEN started ELSE started - 1

\* C33: one processTimeouts call raises the beta of an arm by at most one and
\* leaves its alpha alone; after k calls in sequence an arm of the story with
\* no conversion in the window has its beta k higher and its alpha as before.
C33_OneFailurePerSweep ==
    /\ \A r \in banditState :
          \E r0 \in pre.banditState :
             /\ KeyOf(r0) = KeyOf(r)
             /\ r.alpha = r0.alpha
             /\ r.beta \in r0.beta..(r0.beta + started)
             /\ (r0.storyId \in SweptStories /\ WindowConversions(pre.events, r0) = 0)
                   => r.beta \in (r0.beta + SweepsReturned)..(r0.beta + started)
    /\ {KeyOf(r) : r \in pre.banditState} = {KeyOf(r) : r \in banditState}

C33_Witness ==
    /\ started >= 2
    /\ proc[1].pc = "done"
    /\ proc[1].outcome = "ok"
    /\ \E r0 \in pre.banditState :
          /\ r0.storyId \in SweptStories
          /\ WindowConversions(pre.events, r0) = 0
          /\ r0.alpha > 1
          /\ [r0 EXCEPT !.beta = r0.beta + started] \in banditState
    /\ \E r0 \in pre.banditState :
          /\ r0.storyId \in SweptStories
          /\ WindowConversions(pre.events, r0) > 0


\* The first n candidates of the call that ran alone have been dealt with:
\* their arms are stored, at the prior if they were not stored before, and
\* were read as they are stored.
CandidatesEnsured(n) ==
    /\ Len(Solo.arms) = n
    /\ \A j \in 1..n :
          LET state == getBanditState(Solo.storyId, Solo.sectionKey, HashOf(Solo.cands[j]))
          IN  /\ state # NullState
              /\ Solo.arms[j] = [variant |-> state.variantHash, alpha |-> state.alpha,
                                 beta |-> state.beta]
              /\ (KeyOf(state) \notin {KeyOf(r) : r \in pre.banditState})
                    => state = initializeBanditArm(state.storyId, state.sectionKey,
                                                   state.variantHash)

\* C34: in a chooseOptimalVariant call with several candidates no sample is
\* drawn and no event appended while candidates are still being read; when the
\* samples are drawn every candidate's arm has been read and, if it was
\* missing, stored at the prior; a call that returns has appended exactly one
\* 'variantSelected' event, of the chosen variant with the alpha and beta of
\* its arm.
C34_EnsureBeforeSample ==
    (Solo.op = "chooseOptimalVariant" /\ Len(Solo.cands) > 1)
        => /\ (Solo.pc \in {"co_get", "co_save"})
                 => /\ Solo.i <= Len(Solo.cands)
                    /\ CandidatesEnsured(Solo.i - 1)
                    /\ Solo.draws = << >>
                    /\ events = pre.events
           /\ (Solo.pc = "co_track")
                 => /\ CandidatesEnsured(Len(Solo.cands))
                    /\ Solo.draws = << >>
                    /\ events = pre.events
           /\ (Solo.pc = "done")
                 => /\ Solo.outcome = "ok"
                    /\ CandidatesEnsured(Len(Solo.cands))
                    /\ Solo.draws = [i \in 1..Len(Solo.cands) |-> i]
                    /\ LET state == getBanditState(Solo.storyId, Solo.sectionKey,
                                                   Solo.variantHash)
                       IN  events = pre.events
                                (+) SetToBag({ArmEvent(Solo, "variantSelected",
                                                       SelectionMeta(state))})

C34_Witness ==
    /\ SoloDone("chooseOptimalVariant")
    /\ Len(Solo.cands) > 1
    /\ \E j \in 1..Len(Solo.cands) :
          << Solo.storyId, Solo.sectionKey, HashOf(Solo.cands[j]) >>
              \notin {KeyOf(r) : r \in pre.banditState}
    /\ \E r \in pre.banditState : KeyOf(r) = KeyOf(Solo) /\ r.alpha > 1


\* The arms a call names: the arm of recordConversion and of deployVariant, the
\* arms of the candidates of chooseOptimalVariant.
NamedKeys(rec) ==
    IF rec.op = "chooseOptimalVariant"
    THEN {<< rec.storyId, rec.sectionKey, HashOf(rec.cands[i]) >> : i \in 1..Len(rec.cands)}
    ELSE {KeyOf(rec)}

\* C35: at every step of a recordConversion, deployVariant or
\* chooseOptimalVariant call, and after it, every arm other than the ones the
\* call names is stored as before the call: none changed, added or removed, in
\* the same slot, in other slots and in other stories.
C35_OtherArmsUntouched ==
    (Solo.op \in {"recordConversion", "deployVariant", "chooseOptimalVariant"})
        => {r \in banditState : KeyOf(r) \notin NamedKeys(Solo)}
              = {r \in pre.banditState : KeyOf(r) \notin NamedKeys(Solo)}

C35_Witness ==
    /\ SoloDone("recordConversion")
    /\ banditState # pre.banditState
    /\ \E r \in banditState :
          /\ r.storyId = Solo.storyId
          /\ r.sectionKey = Solo.sectionKey
          /\ r.variantHash # Solo.variantHash
    /\ \E r \in banditState : r.storyId = Solo.storyId /\ r.sectionKey # Solo.sectionKey
    /\ \E r \in banditState : r.storyId # Solo.storyId /\ r.variantHash = Solo.variantHash


(***************************************************************************)
(* The limiter on its own: checkRateLimit is called for the keys of        *)
(* LimiterCallers in any order while time passes.                          *)
(***************************************************************************)
InitLimiter ==
    /\ IdleUtilities
    /\ classifier = IdleClassifier
    /\ banditState = {}
    /\ applied = << >>
    /\ events = EmptyBag
    /\ dbUp = TRUE
    /\ proc = [p \in Procs |-> Blank]
    /\ started = 0
    /\ storyboards = << >>
    /\ asm = IdleAssembly
    /\ pre = [banditState |-> banditState, events |-> events]
    /\ hashIn = << HeroA, HeroA >>
    /\ hashOut = << "", "" >>

NextLimiter ==
    \/ Tick
    \/ checkRateLimit_call

SpecLimiter == InitLimiter /\ [][NextLimiter]_vars

\* The calls up to call j that had the prefix and the identifier of call j.
SameKeyUpTo(j) ==
    {i \in 1..j : /\ checks[i].prefix = checks[j].prefix
                  /\ checks[i].identifier = checks[j].identifier}

\* The calls among them that started a window.
OpeningsUpTo(j) == {i \in SameKeyUpTo(j) : checks[i].fresh}

Latest(S) == CHOOSE i \in S : \A k \in S : k <= i

\* C38: per prefix and identifier the limiter counts in fixed windows.  The
\* first call of a key and the first call after the window of the key has
\* expired start a window and are allowed; every other call falls into the
\* window of its key and is allowed exactly when fewer than maxRequests calls
\* of the key came before it in that window.  Calls of other keys do not count.
C38_FixedWindowPerKey ==
    \A j \in 1..Len(checks) :
       LET earlier == OpeningsUpTo(j) \ {j}
       IN  /\ checks[j].fresh
                <=> \/ earlier = {}
                    \/ checks[j].now > checks[Latest(earlier)].now + WindowMs
           /\ checks[j].fresh => checks[j].allowed
           /\ ~checks[j].fresh
                => LET o == Latest(earlier)
                       before == {i \in SameKeyUpTo(j) : o <= i /\ i < j}
                   IN  /\ checks[j].now <= checks[o].now + WindowMs
                       /\ checks[j].allowed <=> Cardinality(before) < MaxRequests

C38_Witness ==
    /\ Len(checks) >= 5
    /\ \E a, b, c, d, e \in 1..Len(checks) :
          /\ a < b /\ b < c /\ c < d /\ d < e
          /\ SameKeyUpTo(e) \cap {a, b, c, d, e} = {a, b, d, e}
          /\ checks[a].fresh /\ checks[b].allowed /\ ~checks[b].fresh
          /\ checks[c].fresh
          /\ ~checks[d].allowed
          /\ checks[e].fresh /\ checks[e].allowed


(***************************************************************************)
(* The track route on its own: one POST, of one event or of a batch, while *)
(* the store fails and recovers.  The limiter has room for the request or  *)
(* has none.                                                               *)
(***************************************************************************)
ExhaustedLimiter ==
    MapSet({}, "track",
           MapSet({}, RateLimitKey("track", "10.0.0.1"),
                  [count |-> MaxRequests, resetTime |-> WindowMs]))

InitTrack ==
    /\ banditState \in SoloStores
    /\ applied = [k \in {KeyOf(r) : r \in banditState} |->
                     LET r == CHOOSE x \in banditState : KeyOf(x) = k
                     IN  [ones |-> r.alpha - 1, zeros |-> r.beta - 1]]
    /\ events = EmptyBag
    /\ dbUp = TRUE
    /\ proc = [p \in Procs |-> Blank]
    /\ started = 0
    /\ storyboards = << >>
    /\ asm = IdleAssembly
    /\ pre = [banditState |-> banditState, events |-> events]
    /\ classifier = IdleClassifier
    /\ sampler = IdleSampler
    /\ clock = 0
    /\ metrics = {}
    /\ calls = [c \in 1..Len(WithMetricsCalls) |-> IdleCall]
    /\ inMemoryStores \in {{}, ExhaustedLimiter}
    /\ checks = << >>
    /\ post = IdlePost
    /\ hashIn = << HeroA, HeroA >>
    /\ hashOut = << "", "" >>

NextTrack ==
    \/ POST_begin
    \/ POST_next
    \/ POST_single
    \/ recordConversion_save(1)
    \/ recordConversion_track(1)
    \/ processEvent_track(1)
    \/ StorageFails
    \/ StorageRecovers

SpecTrack == InitTrack /\ [][NextTrack]_vars

\* A table of arms after one reward of 1 for the arm of a call: alpha one
\* higher, or the arm created at (2,1).
RewardedOnce(table, rec) ==
    LET rows == {r \in table : KeyOf(r) = KeyOf(rec)}
    IN  (table \ rows)
           \cup (IF rows = {}
                 THEN {Arm(rec.storyId, rec.sectionKey, rec.variantHash, 2, 1)}
                 ELSE {[r EXCEPT !.alpha = r.alpha + 1] : r \in rows})

\* C36: while the track route processes an event, and after it, the arms are as
\* they were when the event was taken up, unless the event is a 'ctaClick' or a
\* 'conversion' with a variant hash that is not empty: then the one change is
\* a reward of 1 for the event's arm, applied once, and it is there when the
\* event has been processed without error.  Events of other kinds, events
\* without a variant hash and accepted persona polls change no alpha or beta.
C36_OnlyConversionsTrain ==
    LET rec == proc[1]
    IN  (rec.op = "processEvent")
           => IF rec.event \in {"ctaClick", "conversion"} /\ rec.variantHash # ""
              THEN /\ banditState \in {post.before, RewardedOnce(post.before, rec)}
                   /\ (rec.pc \in {"rc_track", "pe_track"}
                         \/ (rec.pc = "done" /\ rec.outcome = "ok"))
                         => banditState = RewardedOnce(post.before, rec)
                   /\ rec.pc = "rc_save" => banditState = post.before
              ELSE banditState = post.before

C36_Witness ==
    /\ post.pc = "done"
    /\ Len(post.results) = 2
    /\ post.results[1].personaUpdate = "athlete"
    /\ post.body[1].variantHash # ""
    /\ post.results[2].success
    /\ post.body[2].event = "ctaClick"
    /\ banditState = RewardedOnce(pre.banditState, proc[1])
    /\ pre.banditState # {}

\* The row processEvent inserts for an event it has processed without error.
TrackedRow(e) ==
    [storyId |-> "s1",
     persona |-> IF e.event = "pollPersona" /\ validatePersonaPoll(e.poll) # ""
                 THEN e.poll ELSE DefaultPersona,
     sectionKey |-> "hero", variantHash |-> e.variantHash, event |-> e.event,
     meta |-> IF e.poll = "" THEN NoMeta
              ELSE IF validatePersonaPoll(e.poll) # ""
                   THEN {<< "selectedPersona", e.poll >>,
                         << "previousPersona", DefaultPersona >>}
                   ELSE {<< "selectedPersona", e.poll >>},
     expired |-> FALSE]

\* C37: the response to a valid batch of n events that passed the limiter
\* reports n results, result i for event i; an event is either reported as
\* failed or was tracked, whatever happened to the events before it.
C37_BatchInOrder ==
    (post.pc = "done" /\ post.batch /\ post.status # 429)
        => /\ post.status = 200
           /\ Len(post.results) = Len(post.body)
           /\ \A i \in 1..Len(post.body) :
                 /\ post.results[i].eventId = post.body[i].event
                 /\ (post.results[i].error = "")
                       <=> (post.results[i].success \/ post.results[i].personaUpdate # "")
           /\ \A e \in PostedEvents :
                 CopiesIn(TrackedRow(e), events)
                    = Cardinality({i \in 1..Len(post.body) :
                                      post.body[i] = e /\ post.results[i].error = ""})

C37_Witness ==
    /\ post.pc = "done"
    /\ post.batch
    /\ Len(post.results) = 2
    /\ post.results[1].error # ""
    /\ post.results[2].success
    /\ post.body[2].event = "conversion"

====
